---------------------------- MODULE Spec2Model ----------------------------
(***************************************************************************)
(* A model of significant.js (sheilbronn/significant-digits): the openHAB  *)
(* transformation significantTransform(i, opts) and its helpers.           *)
(*                                                                         *)
(* Numbers.  A JavaScript number is modelled as a decimal floating point   *)
(* value [m |-> mantissa, e |-> exponent] = m * 10^e, kept normalised (m   *)
(* has no trailing zero, zero is [m |-> 0, e |-> 0]) and rounded to eight  *)
(* significant digits after every operation, plus NaN and the two          *)
(* infinities.  The binary rounding error of IEEE doubles (relative 1e-16) *)
(* is therefore replaced by a decimal rounding error (relative 1e-8);      *)
(* signed zero and overflow to Infinity beyond 1.8e308 are not modelled,   *)
(* and adding Number.EPSILON changes a value only below 1e-8.              *)
(*                                                                         *)
(* Strings are TLA+ strings; TLC evaluates Len, SubSeq and \o on them.     *)
(*                                                                         *)
(* A value the source names once and uses several times is passed on as    *)
(* the parameter of a helper operator, so that it is written down once.    *)
(***************************************************************************)
EXTENDS Integers, Sequences, FiniteSets, TLC

---------------------------------------------------------------------------
(* Integer helpers                                                         *)

AbsI(n) == IF n < 0 THEN -n ELSE n
SgnI(n) == IF n < 0 THEN -1 ELSE IF n > 0 THEN 1 ELSE 0
MaxI(a, b) == IF a >= b THEN a ELSE b
MinI(a, b) == IF a <= b THEN a ELSE b

RECURSIVE Pow10i(_)
Pow10i(k) == IF k <= 0 THEN 1 ELSE 10 * Pow10i(k - 1)

RECURSIVE NDigits(_)
NDigits(n) == IF n < 10 THEN 1 ELSE 1 + NDigits(n \div 10)

\* n / d rounded half up, for n >= 0 and 0 < d <= 10^9
RoundDivI(n, d) == (n \div d) + (IF 2 * (n % d) >= d THEN 1 ELSE 0)

---------------------------------------------------------------------------
(* JavaScript numbers                                                      *)

NaN == [nan |-> TRUE]
Infinity == [inf |-> 1]
NegInfinity == [inf |-> -1]
IsFin(x) == DOMAIN x = {"m", "e"}
IsNaN(x) == DOMAIN x = {"nan"}
IsInf(x) == DOMAIN x = {"inf"}

\* the literal m * 10^e, written normalised: m has no trailing zero
D(m, e) == [m |-> m, e |-> e]
Zero == D(0, 0)

RECURSIVE Strip(_, _)
Strip(m, e) ==
    IF m = 0 THEN [m |-> 0, e |-> 0]
    ELSE IF m % 10 = 0 THEN Strip(m \div 10, e + 1)
    ELSE [m |-> m, e |-> e]

\* m * 10^e for an m of k digits, rounded to eight significant digits
Round8(m, e, k) ==
    Strip(IF k <= 8 THEN m ELSE SgnI(m) * RoundDivI(AbsI(m), Pow10i(k - 8)),
          IF k <= 8 THEN e ELSE e + k - 8)

\* the number m * 10^e
Mk(m, e) == Round8(m, e, NDigits(AbsI(m)))

N(n) == Mk(n, 0)

Sign(x) == IF IsFin(x) THEN SgnI(x.m) ELSE IF IsInf(x) THEN x.inf ELSE 0

Neg(x) ==
    IF IsFin(x) THEN [m |-> -x.m, e |-> x.e]
    ELSE IF IsInf(x) THEN [inf |-> -x.inf]
    ELSE NaN

Signed(s, x) == IF s < 0 THEN Neg(x) ELSE x

\* the mantissa of x at exponent lo (rounded when lo is above x.e)
AtExp(x, lo) ==
    IF x.e >= lo THEN x.m * Pow10i(x.e - lo)
    ELSE IF lo - x.e > 9 THEN 0
    ELSE SgnI(x.m) * RoundDivI(AbsI(x.m), Pow10i(lo - x.e))

\* the exponent above the leading digit of x
Top(x) == NDigits(AbsI(x.m)) + x.e

AddAt(a, b, lo) == Mk(AtExp(a, lo) + AtExp(b, lo), lo)

AddFin(a, b) ==
    IF a.m = 0 THEN b
    ELSE IF b.m = 0 THEN a
    ELSE AddAt(a, b, MaxI(MinI(a.e, b.e), MaxI(Top(a), Top(b)) - 9))

Add(a, b) ==
    IF IsNaN(a) \/ IsNaN(b) THEN NaN
    ELSE IF IsInf(a) THEN (IF IsInf(b) /\ b.inf # a.inf THEN NaN ELSE a)
    ELSE IF IsInf(b) THEN b
    ELSE AddFin(a, b)

Sub(a, b) == Add(a, Neg(b))

\* (H * 10^8 + R) * 10^E for an H of k digits and R < 10^8
MulRound(H, R, k, E) ==
    IF k >= 8 THEN Mk(H + (IF k = 8 /\ 2 * R >= 100000000 THEN 1 ELSE 0), E + 8)
    ELSE Mk(H * Pow10i(8 - k) + RoundDivI(R, Pow10i(k)), E + k)
MulTop(H, R, E) == MulRound(H, R, NDigits(H), E)
MulSplit(h, r, E) == MulTop(h + (r \div 100000000), r % 100000000, E)

\* (hh * 10^8 + mid * 10^4 + ll) * 10^E
MulParts(hh, mid, ll, E) == MulSplit(hh + (mid \div 10000), (mid % 10000) * 10000 + ll, E)

\* (xh * 10^4 + xl) * (yh * 10^4 + yl) * 10^E, limb by limb
MulLimbs(xh, xl, yh, yl, E) == MulParts(xh * yh, xh * yl + xl * yh, xl * yl, E)

MulAbs(x, y, E) ==
    IF NDigits(x) + NDigits(y) <= 9 THEN Mk(x * y, E)
    ELSE MulLimbs(x \div 10000, x % 10000, y \div 10000, y % 10000, E)

MulFin(a, b) == Signed(SgnI(a.m) * SgnI(b.m), MulAbs(AbsI(a.m), AbsI(b.m), a.e + b.e))

Mul(a, b) ==
    IF IsNaN(a) \/ IsNaN(b) THEN NaN
    ELSE IF IsInf(a) \/ IsInf(b)
         THEN (IF Sign(a) * Sign(b) = 0 THEN NaN ELSE [inf |-> Sign(a) * Sign(b)])
    ELSE MulFin(a, b)

\* the digits q of a quotient with remainder r over d, k of them decimals
RECURSIVE LongDiv(_, _, _, _)
LongDiv(q, r, d, k) ==
    IF r = 0 \/ q >= 100000000
    THEN [q |-> q + (IF 2 * r >= d THEN 1 ELSE 0), k |-> k]
    ELSE LongDiv(q * 10 + ((r * 10) \div d), (r * 10) % d, d, k + 1)

Quotient(s, ld, E) == Mk(s * ld.q, E - ld.k)

DivAbs(x, d, s, E) == Quotient(s, LongDiv(x \div d, x % d, d, 0), E)

DivFin(a, b) == DivAbs(AbsI(a.m), AbsI(b.m), SgnI(a.m) * SgnI(b.m), a.e - b.e)

Div(a, b) ==
    IF IsNaN(a) \/ IsNaN(b) THEN NaN
    ELSE IF IsInf(a) THEN (IF IsInf(b) THEN NaN
                           ELSE [inf |-> a.inf * (IF Sign(b) < 0 THEN -1 ELSE 1)])
    ELSE IF IsInf(b) THEN Zero
    ELSE IF b.m = 0 THEN (IF a.m = 0 THEN NaN ELSE [inf |-> SgnI(a.m)])
    ELSE DivFin(a, b)

\* the sign of a - b for finite a and b
CmpAt(a, b, lo) == SgnI(AtExp(a, lo) - AtExp(b, lo))
CmpFin(a, b) ==
    IF a.m = 0 THEN -SgnI(b.m)
    ELSE IF b.m = 0 THEN SgnI(a.m)
    ELSE CmpAt(a, b, MaxI(MinI(a.e, b.e), MaxI(Top(a), Top(b)) - 9))

\* the sign of a - b for a and b that are not NaN
Cmp(a, b) ==
    IF IsFin(a) /\ IsFin(b) THEN CmpFin(a, b)
    ELSE IF a = b THEN 0
    ELSE IF IsInf(a) THEN a.inf
    ELSE -b.inf

\* a < b, a <= b, as JavaScript compares numbers (false when either is NaN)
Lt(a, b) == ~IsNaN(a) /\ ~IsNaN(b) /\ Cmp(a, b) < 0
Le(a, b) == ~IsNaN(a) /\ ~IsNaN(b) /\ Cmp(a, b) <= 0
Gt(a, b) == Lt(b, a)
Ge(a, b) == Le(b, a)

\* the integer a finite, integral, small number stands for
ToInt(x) == x.m * Pow10i(x.e)
IsInteger(x) == IsFin(x) /\ x.e >= 0

---------------------------------------------------------------------------
(* Math.floor, Math.round, Math.ceil, Math.trunc, Math.abs, Math.min,      *)
(* Math.max, Math.pow(10, n)                                               *)

floor(x) ==
    IF ~IsFin(x) THEN x
    ELSE IF x.e >= 0 THEN x
    ELSE IF -x.e > 9 THEN (IF x.m < 0 THEN D(-1, 0) ELSE Zero)
    ELSE N(x.m \div Pow10i(-x.e))

\* (m rounded to a multiple of d) / d, a tie going toward +Infinity
RoundHalfUp(m, d) == (m \div d) + (IF 2 * (m % d) >= d THEN 1 ELSE 0)

\* a rounding that sends a tie away from zero, which Math.round is not
roundAway(x) ==
    IF Sign(x) < 0 THEN Neg(floor(Add(Neg(x), D(5, -1)))) ELSE floor(Add(x, D(5, -1)))

\* Math.round: the integer nearest to x, a tie going toward +Infinity
round(x) ==
    IF ~IsFin(x) THEN x
    ELSE IF x.e >= 0 THEN x
    ELSE IF -x.e > 9 THEN Zero
    ELSE N(RoundHalfUp(x.m, Pow10i(-x.e)))

ceil(x) == Neg(floor(Neg(x)))
trunc(x) == IF Sign(x) < 0 THEN ceil(x) ELSE floor(x)
abs(x) == IF Sign(x) < 0 THEN Neg(x) ELSE x
min(a, b) == IF IsNaN(a) \/ IsNaN(b) THEN NaN ELSE IF Lt(b, a) THEN b ELSE a
max(a, b) == IF IsNaN(a) \/ IsNaN(b) THEN NaN ELSE IF Lt(a, b) THEN b ELSE a

\* Math.pow(10, n) for an integral, infinite or NaN n
Pow10(n) ==
    IF IsNaN(n) THEN NaN
    ELSE IF IsInf(n) THEN (IF n.inf > 0 THEN Infinity ELSE Zero)
    ELSE [m |-> 1, e |-> ToInt(n)]

---------------------------------------------------------------------------
(* The helper functions of significant.js                                  *)

\* one range of isWithin: [min, max], or [center, halfwidth] when a > b
Between(value, lo, hi) == Le(lo, value) /\ Le(value, hi)
InRangeOf(value, a, b, ordered) ==
    Between(value, IF ordered THEN a ELSE Sub(a, b), IF ordered THEN b ELSE Add(a, b))
InRange(value, a, b) == InRangeOf(value, a, b, Le(a, b))

\* isWithin(value, ...ranges): ranges is a sequence of pairs <<a, b>>
isWithin(value, ranges) ==
    IsFin(value) /\ \E k \in 1..Len(ranges) : InRange(value, ranges[k][1], ranges[k][2])

\* clamp(x, [minVal, maxVal])
clamp(x, minVal, maxVal) == min(maxVal, max(minVal, x))

\* Math.round(x * factor) / factor
Scaled(x, factor) == Div(round(Mul(x, factor)), factor)

\* roundTo(x, decimals) for an integer decimals
roundTo(x, decimals) == Scaled(x, D(1, decimals))

magniTude(x) ==
    IF x = Zero THEN Zero
    ELSE IF IsNaN(x) THEN NaN
    ELSE IF IsInf(x) THEN Infinity
    ELSE N(Top(x) - 1)

toPrec(x, sigfigs) ==
    IF x = Zero THEN Zero
    ELSE Scaled(x, Pow10(Sub(Sub(sigfigs, magniTude(x)), D(1, 0))))

---------------------------------------------------------------------------
(* Strings: characters, String(number), Number.prototype.toExponential     *)

\* s.slice(a - 1, b): the characters a..b of s, clipped to the string
Slice(s, a, b) ==
    IF a > b \/ a > Len(s) \/ b < 1 THEN ""
    ELSE SubSeq(s, MaxI(a, 1), MinI(b, Len(s)))
Ch(s, k) == IF k < 1 \/ k > Len(s) THEN "" ELSE SubSeq(s, k, k)
From(s, k) == IF k > Len(s) THEN "" ELSE SubSeq(s, MaxI(k, 1), Len(s))
DigitChars == {"0", "1", "2", "3", "4", "5", "6", "7", "8", "9"}
IsDigit(c) == c \in DigitChars
DigitStr(d) == SubSeq("0123456789", d + 1, d + 1)
DigitVal(c) == CHOOSE d \in 0..9 : DigitStr(d) = c

\* the least and the greatest member of a set of integers that is not empty
Least(S) == CHOOSE j \in S : \A h \in S : j <= h
Greatest(S) == CHOOSE j \in S : \A h \in S : j >= h

RECURSIVE IntToStr(_)
IntToStr(n) == IF n < 10 THEN DigitStr(n) ELSE IntToStr(n \div 10) \o DigitStr(n % 10)

\* a string of n zeros
RECURSIVE Zeros(_)
Zeros(n) ==
    IF n <= 0 THEN ""
    ELSE IF n = 1 THEN "0"
    ELSE Zeros(n \div 2) \o Zeros(n - (n \div 2))

\* the exponent part of a number in scientific notation
ExpPart(ex) == "e" \o (IF ex < 0 THEN "-" ELSE "+") \o IntToStr(AbsI(ex))

\* the k digits d of a number with its decimal point behind digit n
Decimal(sg, d, k, n) ==
    IF k <= n /\ n <= 21 THEN sg \o d \o Zeros(n - k)
    ELSE IF 0 < n /\ n <= 21 THEN sg \o Slice(d, 1, n) \o "." \o From(d, n + 1)
    ELSE IF -6 < n /\ n <= 0 THEN sg \o "0." \o Zeros(-n) \o d
    ELSE sg \o Ch(d, 1) \o (IF k > 1 THEN "." \o From(d, 2) ELSE "") \o ExpPart(n - 1)

DigitsToString(sg, d, e) == Decimal(sg, d, Len(d), Len(d) + e)

\* String(x) for a number x (ECMAScript Number::toString, radix 10)
NumberToString(x) ==
    IF IsNaN(x) THEN "NaN"
    ELSE IF IsInf(x) THEN (IF x.inf > 0 THEN "Infinity" ELSE "-Infinity")
    ELSE IF x.m = 0 THEN "0"
    ELSE DigitsToString(IF x.m < 0 THEN "-" ELSE "", IntToStr(AbsI(x.m)), x.e)

\* a JavaScript value that is a number or a string: strings are wrapped
Str(s) == [str |-> s]
IsStr(v) == DOMAIN v = {"str"}

\* a thrown RangeError
RangeError == [threw |-> "RangeError"]
Threw(r) == DOMAIN r = {"threw"}

\* the digits d of a mantissa, f of them behind the point, and the exponent
ExpString(sg, d, f, ex) ==
    sg \o Ch(d, 1) \o (IF f > 0 THEN "." \o From(d, 2) ELSE "") \o ExpPart(ex)

\* the k digits of x rounded to f + 1 digits: mr, when there are more
ExpRounded(x, f, k, mr) ==
    ExpString(IF x.m < 0 THEN "-" ELSE "",
              IF f + 1 >= k THEN IntToStr(AbsI(x.m)) \o Zeros(f + 1 - k)
              ELSE IF mr = Pow10i(f + 1) THEN "1" \o Zeros(f)
              ELSE IntToStr(mr),
              f,
              IF x.m = 0 THEN 0
              ELSE k - 1 + x.e + (IF f + 1 < k /\ mr = Pow10i(f + 1) THEN 1 ELSE 0))

ExpDigits(x, f, k) ==
    ExpRounded(x, f, k, IF f + 1 >= k THEN 0 ELSE RoundDivI(AbsI(x.m), Pow10i(k - f - 1)))

\* x.toExponential(fd) for an integral fd
ToExp(x, fd) ==
    IF ~IsFin(x) THEN Str(NumberToString(x))
    ELSE IF ~IsFin(fd) \/ Lt(fd, Zero) \/ Gt(fd, D(1, 2)) THEN RangeError
    ELSE Str(ExpDigits(x, ToInt(fd), NDigits(AbsI(x.m))))

\* x.toExponential(fractionDigits): a string, or RangeError when the
\* truncated argument is outside 0..100
toExponential(x, fractionDigits) == ToExp(x, trunc(fractionDigits))

---------------------------------------------------------------------------
(* Strings: String.prototype.trim, parseFloat, the regular expressions     *)

IsSpace(c) == c \in {" ", "\t"}
UpperChars == "ABCDEFGHIJKLMNOPQRSTUVWXYZ"
LowerChars == "abcdefghijklmnopqrstuvwxyz"
IsUpper(c) == \E k \in 1..26 : Ch(UpperChars, k) = c
IsLetter(c) == \E k \in 1..26 : Ch(UpperChars, k) = c \/ Ch(LowerChars, k) = c
LowerOf(c) ==
    IF IsUpper(c) THEN Ch(LowerChars, CHOOSE k \in 1..26 : Ch(UpperChars, k) = c) ELSE c

RECURSIVE toLowerCase(_)
toLowerCase(s) == IF s = "" THEN "" ELSE LowerOf(Ch(s, 1)) \o toLowerCase(From(s, 2))

\* the positions of s that hold no white space
Inked(s) == {j \in 1..Len(s) : ~IsSpace(Ch(s, j))}
trimStart(s) == IF Inked(s) = {} THEN "" ELSE From(s, Least(Inked(s)))
trimEnd(s) == IF Inked(s) = {} THEN "" ELSE Slice(s, 1, Greatest(Inked(s)))
trim(s) == trimEnd(trimStart(s))

\* the index after the run of characters of s satisfying P that starts at k
ScanStop(s, k, stops) == IF stops = {} THEN MaxI(k, Len(s) + 1) ELSE Least(stops)
ScanWhile(s, k, P(_)) == ScanStop(s, k, {j \in k..Len(s) : ~P(Ch(s, j))})
ScanDigits(s, k) == ScanWhile(s, k, IsDigit)
ScanSpaces(s, k) == ScanWhile(s, k, IsSpace)
ScanLetters(s, k) == ScanWhile(s, k, IsLetter)
IsZeroChar(c) == c = "0"

\* the integer a string of at most nine digits denotes
RECURSIVE SmallInt(_)
SmallInt(s) ==
    IF s = "" THEN 0 ELSE 10 * SmallInt(Slice(s, 1, Len(s) - 1)) + DigitVal(Ch(s, Len(s)))

\* the value of the digits sig followed by digits up to n in all
FirstDigits(sig, n) == Mk(SmallInt(sig), n - Len(sig))

\* the value of a string of decimal digits of any length: its first nine
\* significant digits, behind z - 1 zeros, are kept, the rest only counted
DigitsFrom(s, z) == FirstDigits(Slice(s, z, z + 8), Len(s) - z + 1)
DigitsValue(s) == DigitsFrom(s, ScanWhile(s, 1, IsZeroChar))

\* the exponent digits of a numeric literal (more than four digits: 9999)
ExpValue(s) == IF Len(s) > 4 THEN 9999 ELSE ToInt(DigitsValue(s))

\* the scan of a decimal literal [+-]digits[.digits][e[+-]digits] at the
\* start of s, part by part: the integer digits end before iEnd, the
\* fraction digits before fEnd, the exponent digits are eS..eEnd - 1
LiteralEnd(s, intD, fracD, fEnd, eS, eEnd) ==
    [ok |-> intD # "" \/ fracD # "", neg |-> Ch(s, 1) = "-", intD |-> intD, fracD |-> fracD,
     expo |-> IF (intD # "" \/ fracD # "") /\ Ch(s, fEnd) \in {"e", "E"} /\ eEnd > eS
              THEN (IF Ch(s, fEnd + 1) = "-" THEN -1 ELSE 1) * ExpValue(Slice(s, eS, eEnd - 1))
              ELSE 0]
LiteralExp(s, intD, fracD, fEnd, eS) ==
    LiteralEnd(s, intD, fracD, fEnd, eS, ScanDigits(s, eS))
LiteralFrac(s, intD, iEnd, fEnd) ==
    LiteralExp(s, intD, Slice(s, iEnd + 1, fEnd - 1), fEnd,
               IF Ch(s, fEnd + 1) \in {"+", "-"} THEN fEnd + 2 ELSE fEnd + 1)
LiteralInt(s, p0, iEnd) ==
    LiteralFrac(s, Slice(s, p0, iEnd - 1), iEnd,
                IF Ch(s, iEnd) = "." THEN ScanDigits(s, iEnd + 1) ELSE iEnd)
LiteralSign(s, p0) == LiteralInt(s, p0, ScanDigits(s, p0))
Literal(s) == LiteralSign(s, IF Ch(s, 1) \in {"+", "-"} THEN 2 ELSE 1)

\* the number a scanned literal denotes
Shifted(v, k) == Mk(v.m, v.e + k)
LiteralValue(l) ==
    Signed(IF l.neg THEN -1 ELSE 1,
           Shifted(DigitsValue(l.intD \o l.fracD), l.expo - Len(l.fracD)))

NumberOf(l) == IF l.ok THEN LiteralValue(l) ELSE NaN
IsInfinityWord(u) == Slice(u, 1, 8) = "Infinity"
ParseTrimmed(s) ==
    IF IsInfinityWord(IF Ch(s, 1) \in {"+", "-"} THEN From(s, 2) ELSE s)
    THEN (IF Ch(s, 1) = "-" THEN NegInfinity ELSE Infinity)
    ELSE NumberOf(Literal(s))
parseFloat(str) == ParseTrimmed(trimStart(str))

Undefined == [undef |-> TRUE]

\* numOrUndef(x): parseFloat, undefined unless finite
FiniteOrUndefined(n) == IF IsFin(n) THEN n ELSE Undefined
numOrUndef(x) == FiniteOrUndefined(parseFloat(x))

\* isTrue(s) for a string s
isTrue(s) == toLowerCase(trim(s)) \in {"t", "true", "yes", "y", "on", "1"}

\* the end of a match of \d+(?:\.\d+)? starting at p0 in s (p0: no match)
NumEndAt(s, p0, iEnd) ==
    IF iEnd > p0 /\ Ch(s, iEnd) = "." /\ ScanDigits(s, iEnd + 1) > iEnd + 1
    THEN ScanDigits(s, iEnd + 1)
    ELSE iEnd
NumEnd(s, p0) == NumEndAt(s, p0, ScanDigits(s, p0))

---------------------------------------------------------------------------
(* significantTransform: the options (lines 118-256).  opts is a record    *)
(* holding the keys the caller gave, each with a string value.             *)

Has(o, k) == k \in DOMAIN o

\* the match of /^(\d+(?:\.\d+)?)([A-Za-z]*)$/ against s, the number of
\* which ends before nEnd
DivSuffix(s, nEnd) ==
    [ok |-> nEnd > 1 /\ ScanLetters(s, nEnd) = Len(s) + 1,
     amount |-> Slice(s, 1, nEnd - 1), typea |-> From(s, nEnd)]
DivMatch(s) == DivSuffix(s, NumEnd(s, 1))

\* the keys and values of scaleMap; 1024 ** 3 and above have more than
\* eight digits and are rounded to eight
SCALE_KEYS == {"", "k", "K", "ki", "M", "Mi", "G", "Gi", "T", "Ti", "P", "Pi"}
\* a table whose binary suffixes stand for the decimal factors
ScaleMapDecimal(typea) ==
    CASE typea = "" -> D(1, 0)
      [] typea \in {"k", "K", "ki"} -> D(1, 3)
      [] typea \in {"M", "Mi"} -> D(1, 6)
      [] typea \in {"G", "Gi"} -> D(1, 9)
      [] typea \in {"T", "Ti"} -> D(1, 12)
      [] typea \in {"P", "Pi"} -> D(1, 15)

SCALE_MAP(typea) ==
    CASE typea = ""   -> D(1, 0)
      [] typea = "k"  -> D(1, 3)
      [] typea = "K"  -> D(1024, 0)
      [] typea = "ki" -> D(1024, 0)
      [] typea = "M"  -> D(1, 6)
      [] typea = "Mi" -> D(1048576, 0)
      [] typea = "G"  -> D(1, 9)
      [] typea = "Gi" -> D(10737418, 2)
      [] typea = "T"  -> D(1, 12)
      [] typea = "Ti" -> D(10995116, 5)
      [] typea = "P"  -> D(1, 15)
      [] typea = "Pi" -> D(11258999, 8)

\* lines 204-241: the divisor the option div stands for
DivAmount(amount, typea) ==
    IF ~IsFin(amount) THEN Undefined
    ELSE IF typea \notin SCALE_KEYS THEN amount
    ELSE Mul(amount, SCALE_MAP(typea))
DivChecked(d) == IF ~IsFin(d) \/ d = Zero THEN Undefined ELSE d
DivOf(matches) ==
    IF ~matches.ok THEN Undefined
    ELSE DivChecked(DivAmount(parseFloat(matches.amount), matches.typea))
ParseDiv(div) == DivOf(DivMatch(trim(div)))

\* lines 121-131 and 174-256: the ...Asked values parsed from opts, given
\* num[k] = numOrUndef(opts[k]) and yes[k] = isTrue(opts[k]) for its keys
Asked(opts, num, yes) ==
    [verboseAsked   |-> Has(opts, "verbose") /\ yes.verbose,
     testingAsked   |-> Has(opts, "testing") /\ yes.testing,
     flickerEnabled |-> Has(opts, "flicker") /\ yes.flicker,
     siAsked        |-> IF Has(opts, "si") THEN yes.si ELSE TRUE,
     precisionAsked |-> IF Has(opts, "precision") THEN num.precision
                        ELSE IF Has(opts, "prec") THEN num.prec
                        ELSE Undefined,
     scaleAsked     |-> IF Has(opts, "scale") THEN num.scale ELSE Undefined,
     skewAsked      |-> IF Has(opts, "skew") THEN num.skew ELSE Undefined,
     divAsked       |-> IF Has(opts, "div") THEN ParseDiv(opts.div) ELSE Undefined,
     multAsked      |-> IF Has(opts, "mult") THEN num.mult ELSE Undefined,
     unitAsked      |-> IF Has(opts, "unit") THEN <<opts.unit>>
                        ELSE IF Has(opts, "div") THEN <<"">>
                        ELSE <<>>]
ParseOptions(opts) ==
    Asked(opts, [k \in DOMAIN opts |-> numOrUndef(opts[k])],
                [k \in DOMAIN opts |-> isTrue(opts[k])])

---------------------------------------------------------------------------
(* significantTransform: the date-time branch (lines 265-299)              *)

\* dtregex: YYYY-MM-DD(T| )HH:MM:SS.mmm(+|-)HHMM
DtMatch(s) ==
    /\ Len(s) = 28
    /\ \A k \in {1, 2, 3, 4, 7, 10, 13, 16, 19, 21, 22, 23, 25, 26, 27, 28} : IsDigit(Ch(s, k))
    /\ Ch(s, 5) = "-" /\ Ch(s, 8) = "-"
    /\ Ch(s, 6) \in {"0", "1"}
    /\ Ch(s, 9) \in {"0", "1", "2", "3"}
    /\ Ch(s, 11) \in {"T", " "}
    /\ Ch(s, 12) \in {"0", "1", "2"}
    /\ Ch(s, 14) = ":" /\ Ch(s, 17) = ":"
    /\ Ch(s, 15) \in {"0", "1", "2", "3", "4", "5"}
    /\ Ch(s, 18) \in {"0", "1", "2", "3", "4", "5"}
    /\ Ch(s, 20) = "."
    /\ Ch(s, 24) \in {"+", "-"}

\* days from 1970-01-01 to the first of month monthIndex (0 = January, any
\* integer) of year, as Date.UTC counts them (proleptic Gregorian)
DaysFromCivil(year, monthIndex) ==
    LET ym  == year + (monthIndex \div 12)
        mn  == (monthIndex % 12) + 1
        y   == IF mn <= 2 THEN ym - 1 ELSE ym
        era == y \div 400
        yoe == y - era * 400
        doy == (153 * (IF mn > 2 THEN mn - 3 ELSE mn + 9) + 2) \div 5
        doe == yoe * 365 + (yoe \div 4) - (yoe \div 100) + doy
    IN  era * 146097 + doe - 719468

\* the year, month (1..12) and day of the day z days after 1970-01-01,
\* step by step: era, day of era, year of era, day of year, month
CivilDate(y, m, d) == [year |-> y + (IF m <= 2 THEN 1 ELSE 0), month |-> m, date |-> d]
CivilMonth(y, doy, mp) ==
    CivilDate(y, IF mp < 10 THEN mp + 3 ELSE mp - 9, doy - ((153 * mp + 2) \div 5) + 1)
CivilDay(y, doy) == CivilMonth(y, doy, (5 * doy + 2) \div 153)
CivilYear(era, doe, yoe) ==
    CivilDay(yoe + era * 400, doe - (365 * yoe + (yoe \div 4) - (yoe \div 100)))
CivilEra(era, doe) ==
    CivilYear(era, doe,
              (doe - (doe \div 1460) + (doe \div 36524) - (doe \div 146096)) \div 365)
CivilShifted(zz) == CivilEra(zz \div 146097, zz % 146097)
CivilFromDays(z) == CivilShifted(z + 719468)

MsPerDay == 24 * 3600000

\* an instant as [day, ms]: day * MsPerDay + ms with 0 <= ms < MsPerDay
Instant(day, ms) == [day |-> day + (ms \div MsPerDay), ms |-> ms % MsPerDay]

\* Date.UTC(yy, mo - 1, dd, hh, mm, ss, ms); a year 0..99 counts from 1900
DateUTC(yy, monthIndex, dd, hh, mm, ss, ms) ==
    Instant(DaysFromCivil(IF yy <= 99 THEN 1900 + yy ELSE yy, monthIndex) + dd - 1,
            hh * 3600000 + mm * 60000 + ss * 1000 + ms)

padStart2(s) == IF Len(s) < 2 THEN Zeros(2 - Len(s)) \o s ELSE s
padStart3(s) == IF Len(s) < 3 THEN Zeros(3 - Len(s)) \o s ELSE s

\* line 272: the offset +HHMM / -HHMM in minutes
OffsetMinutes(tzoffset) ==
    (IF Ch(tzoffset, 1) = "-" THEN -1 ELSE 1)
    * (SmallInt(Slice(tzoffset, 2, 3)) * 60 + SmallInt(Slice(tzoffset, 4, 5)))

\* line 277: the wall time of the input as an instant
LocalUtcMs(input) ==
    DateUTC(SmallInt(Slice(input, 1, 4)), SmallInt(Slice(input, 6, 7)) - 1,
            SmallInt(Slice(input, 9, 10)), SmallInt(Slice(input, 12, 13)),
            SmallInt(Slice(input, 15, 16)), SmallInt(Slice(input, 18, 19)),
            SmallInt(Slice(input, 21, 23)))

\* line 279: the rounding unit of a scale level 0..4
UnitMs(level) == <<MsPerDay, 3600000, 60000, 1000, 1>>[level + 1]

\* line 280: round(t / unitMs) * unitMs, for a unitMs that divides a day
RoundedTo(t, unitMs) == Instant(t.day, ((2 * t.ms + unitMs) \div (2 * unitMs)) * unitMs)
Later(t, ms) == Instant(t.day, t.ms + ms)

\* lines 278-281: to UTC, rounded, and back to the wall time
LocalMs(input, level, offsetMs) ==
    Later(RoundedTo(Later(LocalUtcMs(input), -offsetMs), UnitMs(level)), offsetMs)

\* lines 284-292 for the date dLoc and the time of day ms
DtString(dLoc, ms, level, timesep, tzoffset) ==
    IntToStr(dLoc.year) \o "-"
      \o padStart2(IntToStr(dLoc.month)) \o "-"
      \o padStart2(IntToStr(dLoc.date)) \o timesep
      \o (IF level < 1 THEN "00" ELSE padStart2(IntToStr(ms \div 3600000))) \o ":"
      \o (IF level < 2 THEN "00" ELSE padStart2(IntToStr((ms \div 60000) % 60))) \o ":"
      \o (IF level < 3 THEN "00" ELSE padStart2(IntToStr((ms \div 1000) % 60)))
      \o (IF level < 4 THEN "" ELSE "." \o padStart3(IntToStr(ms % 1000)))
      \o tzoffset
DtFormat(input, level, localMs) ==
    DtString(CivilFromDays(localMs.day), localMs.ms, level, Ch(input, 11), Slice(input, 24, 28))

\* lines 284-292 when scaleAsked is no integer: unitMs is undefined and
\* every component of the date is NaN
DtNaN(input, scaleAsked) ==
    "NaN-NaN-NaN" \o Ch(input, 11)
      \o (IF Lt(scaleAsked, D(1, 0)) THEN "00" ELSE "NaN") \o ":"
      \o (IF Lt(scaleAsked, D(2, 0)) THEN "00" ELSE "NaN") \o ":"
      \o (IF Lt(scaleAsked, D(3, 0)) THEN "00" ELSE "NaN")
      \o (IF Lt(scaleAsked, D(4, 0)) THEN "" ELSE ".NaN")
      \o Slice(input, 24, 28)

DtScaled(input, scaleAsked) ==
    IF ~IsInteger(scaleAsked) THEN DtNaN(input, scaleAsked)
    ELSE DtFormat(input, ToInt(scaleAsked),
                  LocalMs(input, ToInt(scaleAsked),
                          OffsetMinutes(Slice(input, 24, 28)) * 60 * 1000))

\* lines 268-292: the output for an input matching dtregex
DateTimeOutput(input, scaleAskedIn) ==
    DtScaled(input, clamp(IF scaleAskedIn = Undefined THEN D(3, 0) ELSE scaleAskedIn,
                          Zero, D(4, 0)))

---------------------------------------------------------------------------
(* significantTransform: parsing the value (lines 303-348)                 *)

\* String(v) for a number or a string v
String(v) == IF IsStr(v) THEN v.str ELSE NumberToString(v)

\* fmt(v, u)
fmt(v, u) == String(v) \o (IF u # "" THEN " " \o u ELSE "")

\* the end of a match of -?\d+(?:\.\d+)? starting at k in s (0: no match)
NumAfter(p0, nEnd) == IF nEnd = p0 THEN 0 ELSE nEnd
NumFrom(s, p0) == NumAfter(p0, NumEnd(s, p0))
NumAt(s, k) == NumFrom(s, IF Ch(s, k) = "-" THEN k + 1 ELSE k)

\* the match of (-?\d+(?:\.\d+)?)\s*-\s*(-?\d+(?:\.\d+)?) starting at k:
\* the first number ends before aEnd, the dash is at dash, the second
\* number is bBeg..bEnd - 1
IntervalEnd(s, k, aEnd, dash, bBeg, bEnd) ==
    [ok |-> aEnd > 0 /\ Ch(s, dash) = "-" /\ bEnd > 0,
     a |-> Slice(s, k, aEnd - 1), b |-> Slice(s, bBeg, bEnd - 1)]
IntervalSecond(s, k, aEnd, dash, bBeg) ==
    IntervalEnd(s, k, aEnd, dash, bBeg, NumAt(s, bBeg))
IntervalDash(s, k, aEnd, dash) == IntervalSecond(s, k, aEnd, dash, ScanSpaces(s, dash + 1))
IntervalFirst(s, k, aEnd) == IntervalDash(s, k, aEnd, ScanSpaces(s, aEnd))
IntervalAt(s, k) == IntervalFirst(s, k, NumAt(s, k))

\* input.match(/(-?\d+(?:\.\d+)?)\s*-\s*(-?\d+(?:\.\d+)?)/): the leftmost match
IntervalFrom(s, starts) ==
    IF starts = {} THEN [ok |-> FALSE, a |-> "", b |-> ""]
    ELSE IntervalAt(s, Least(starts))
IntervalMatch(s) == IntervalFrom(s, {k \in 1..Len(s) : IntervalAt(s, k).ok})

\* input.match(/\s+(.*)$/)[1]: the text behind the first run of white
\* space; "" when there is no white space (input is trimmed, so that a
\* match never yields "")
UnitBehind(s, spaces) == IF spaces = {} THEN "" ELSE From(s, ScanSpaces(s, Least(spaces)))
UnitMatch(s) == UnitBehind(s, {k \in 1..Len(s) : IsSpace(Ch(s, k))})

\* lines 337-347: the significant digits of the first numeric token, 0.5
\* when it holds no digit 1-9; ok is false when there is no such token
CountFrom(digits, z) == IF z <= Len(digits) THEN N(Len(digits) - z + 1) ELSE D(5, -1)
CountDigits(digits) == CountFrom(digits, ScanWhile(digits, 1, IsZeroChar))
DigitsFound(m) == [ok |-> m.ok, precisionFound |-> CountDigits(m.intD \o m.fracD)]
PrecisionFound(input) == DigitsFound(Literal(trim(input)))

\* lines 337-347 on the locals g: returned holds the value of an early
\* return, if any
Found(g, pf) ==
    IF ~pf.ok THEN [g EXCEPT !.returned = <<g.input>>]
    ELSE [g EXCEPT !.precisionFound = pf.precisionFound]
Counted(g) == Found(g, PrecisionFound(g.input))

\* lines 319-324
WithUnitOf(f, value, unit) ==
    [f EXCEPT !.value = value, !.origValue = value, !.unit_i = unit, !.origUnit = unit]

\* lines 310-317
Midpoint(f, value, matches) ==
    IF ~matches.ok THEN [f EXCEPT !.value = value, !.returned = <<f.input>>]
    ELSE Counted([f EXCEPT !.value = Div(Add(parseFloat(matches.a), parseFloat(matches.b)),
                                         D(2, 0)),
                           !.origValue = Str(matches.a \o "-" \o matches.b)])

\* lines 303-348 on the locals f
Parsed(f, value) ==
    IF IsNaN(value) THEN Midpoint(f, value, IntervalMatch(f.input))
    ELSE Counted(WithUnitOf(f, value, UnitMatch(f.input)))
ParseValue(f) == Parsed(f, parseFloat(f.input))

---------------------------------------------------------------------------
(* significantTransform: unit policy (lines 351-657)                       *)

\* a trans that renames the unit and forgets the factor
transUnitOnly(v, factor, newUnit) == <<v, newUnit>>

\* line 166: trans(v, factor, newUnit)
trans(v, factor, newUnit) == <<Mul(v, factor), newUnit>>

\* the destructuring assignment [value, unit_i] = ...
Assign(f, t) == [f EXCEPT !.value = t[1], !.unit_i = t[2]]

\* the outcome of a block of the switch: the locals, and whether it breaks
Brk(f) == [f |-> f, brk |-> TRUE]
Fall(f) == [f |-> f, brk |-> FALSE]
Seek(f, p) == [f EXCEPT !.precisionSeeked = p]

\* s.replace(pat, rep): the first occurrence only
ReplaceAt(s, pat, rep, hits) ==
    IF hits = {} THEN s
    ELSE Slice(s, 1, Least(hits) - 1) \o rep \o From(s, Least(hits) + Len(pat))
Replace(s, pat, rep) ==
    ReplaceAt(s, pat, rep, {k \in 1..Len(s) : Slice(s, k, k + Len(pat) - 1) = pat})

\* a value of normalizeVector: an array of prefixes, or undefined
Vector(v) == [defined |-> TRUE, v |-> v]
NoVector == [defined |-> FALSE, v |-> <<>>]
normalizeVectorGeneric == Vector(<<"µ", "m", "", "k", "M", "G", "T", "P", "E">>)

\* line 353: the IEC factors; 1024 ** 3 and above are rounded to eight digits
IecFactor(unit) ==
    CASE unit = "KiB" -> D(1024, 0)
      [] unit = "MiB" -> D(1048576, 0)
      [] unit = "GiB" -> D(10737418, 2)
      [] unit = "TiB" -> D(10995116, 5)
      [] unit = "PiB" -> D(11258999, 8)
      [] OTHER -> D(1, 0)

\* lines 351-357: a unit asked for replaces the unit of the input
Forced(f, unitAsked) ==
    [f EXCEPT !.value = IF unitAsked = "" \/ unitAsked = "."
                        THEN Mul(f.value, IecFactor(f.unit_i)) ELSE f.value,
              !.unit_i = IF unitAsked = "." THEN "" ELSE unitAsked]
ForceUnit(f, a) == IF a.unitAsked = <<>> THEN f ELSE Forced(f, a.unitAsked[1])

\* the case labels of the switch at line 360, block by block in source order
Labels(k) ==
    CASE k = 1 -> {"°F"}           [] k = 2 -> {"°C"}
      [] k = 3 -> {"K"}            [] k = 4 -> {"kn"}
      [] k = 5 -> {"mph"}          [] k = 6 -> {"m/s"}
      [] k = 7 -> {"km/h"}         [] k = 8 -> {"in/h"}
      [] k = 9 -> {"yd"}           [] k = 10 -> {"ft"}
      [] k = 11 -> {"in"}          [] k = 12 -> {"cm"}
      [] k = 13 -> {"mm"}          [] k = 14 -> {"m"}
      [] k = 15 -> {"h"}           [] k = 16 -> {"min"}
      [] k = 17 -> {"s"}           [] k = 18 -> {"lbs"}
      [] k = 19 -> {"kg"}          [] k = 20 -> {"psi", "inHg", "mmHg"}
      [] k = 21 -> {"mbar", "hPa"} [] k = 22 -> {"Pa"}
      [] k = 23 -> {"bar"}         [] k = 24 -> {"Wh", "VAh"}
      [] k = 25 -> {"kWh"}         [] k = 26 -> {"J", "cal"}
      [] k = 27 -> {"rpm"}         [] k = 28 -> {"Hz"}
      [] k = 29 -> {"A", "Ah", "Ω"}
      [] k = 30 -> {"kA", "mA", "µA", "nA", "mAh", "kAh", "mS", "µS", "S", "S/m", "C", "kΩ", "MΩ"}
      [] k = 31 -> {"W"}           [] k = 32 -> {"kW", "MW", "dBm"}
      [] k = 33 -> {"W/m²", "µW/cm²"}
      [] k = 34 -> {"V"}           [] k = 35 -> {"gal", "gal/min"}
      [] k = 36 -> {"l", "l/min", "m³", "m³/s", "m³/min", "m³/h", "m³/d"}
      [] k = 37 -> {"mi"}          [] k = 38 -> {"km"}
      [] k = 39 -> {"mg/m³", "µg/m³"}
      [] k = 40 -> {"Mbit/s", "kbit/s", "bit/s"}
      [] k = 41 -> {"Mbit", "kbit", "bit", "TiB", "GiB", "MiB", "KiB", "B"}
      [] k = 42 -> {"ppm", "ppb", "ppt", "dB", "mol", "kat"}
      [] k = 43 -> {"percent"}     [] k = 44 -> {"%"}
      [] k = 45 -> {"°"}
      [] OTHER -> {}

Blocks == 1..46
DefaultBlock == CHOOSE k \in Blocks : \A h \in Blocks : h <= k

\* the block the switch enters for a unit
Entry(unit) ==
    IF \E k \in Blocks : unit \in Labels(k)
    THEN CHOOSE k \in Blocks : unit \in Labels(k)
    ELSE DefaultBlock


\* lines 381-385: the precision of a speed in mph, and its conversion
Mph(g, a) == IF a.siAsked THEN Assign(g, trans(g.value, D(1609344, -6), "km/h")) ELSE g

\* line 488: the precision of a pressure in hPa
Hpa(g) ==
    Seek(g, IF isWithin(g.value, <<<<D(8, 2), D(1, 3)>>>>) THEN D(35, -1)
            ELSE IF isWithin(g.value, <<<<D(1, 3), D(105, 1)>>>>) THEN D(45, -1)
            ELSE D(3, 0))

\* lines 502-505: the precision of an energy in Wh or kWh of magnitude p1
Kwh(f, p1) ==
    [Seek(f, max(D(15, -1), IF f.unit_i = "Wh" THEN Sub(p1, D(3, 0)) ELSE p1))
     EXCEPT !.scaleSeeked = D(1, 0)]

\* temperature, speed, length and duration: blocks 1-17 (lines 361-438)
BlockA(k, f, a) ==
    LET v  == f.value
        av == abs(f.value)
    IN
    CASE k = 1 ->
           IF ~a.siAsked
           THEN Brk(Seek(f, IF Lt(av, D(3, 0)) THEN D(13, -1)
                            ELSE IF isWithin(v, <<<<D(19, 1), D(215, 0)>>>>) THEN D(3, 0)
                            ELSE D(25, -1)))
           ELSE Fall(Assign(f, trans(Sub(v, D(32, 0)), Div(D(5, 0), D(9, 0)), "°C")))
      [] k = 2 ->
           Brk(Seek(f, IF Lt(av, D(1, 0)) THEN D(7, -1)
                       ELSE IF Lt(av, D(1, 1)) THEN D(15, -1)
                       ELSE D(25, -1)))
      [] k = 3 ->
           LET p1 == max(D(-1, 0), magniTude(v))
               p2 == clamp(p1, D(1, 0), D(3, 0))
           IN  Brk(Seek(f, Add(p2, IF isWithin(v, << <<Zero, D(1, 1)>>, <<D(273, 0), D(2, 0)>>,
                                                     <<D(371, 0), D(3, 0)>> >>)
                                   THEN D(7, -1) ELSE Zero)))
      [] k = 4 -> Fall(Assign(f, trans(v, D(115078, -5), "mph")))
      [] k = 5 ->
           Brk(Mph([Seek(f, IF Lt(av, D(1, 1)) THEN D(15, -1)
                            ELSE IF Lt(av, D(3, 1)) THEN D(13, -1)
                            ELSE D(15, -1))
                    EXCEPT !.scaleSeeked = Zero], a))
      [] k = 6 -> Fall(Assign(f, trans(v, D(36, -1), "km/h")))
      [] k = 7 ->
           Brk(Seek(f, IF Lt(av, D(5, 0)) THEN D(1, 0)
                       ELSE IF Lt(av, D(2, 1)) THEN D(15, -1)
                       ELSE D(2, 0)))
      [] k = 8 ->
           Brk(IF a.siAsked THEN Assign(f, trans(v, D(254, -1), "mm/h")) ELSE f)
      [] k = 9 -> Fall(Assign(f, trans(v, D(3, 0), "ft")))
      [] k = 10 -> Fall(Assign(f, trans(v, D(12, 0), "in")))
      [] k = 11 ->
           IF ~a.siAsked THEN Brk(Seek(f, D(2, 0)))
           ELSE Fall(Assign(f, trans(v, D(254, -2), "cm")))
      [] k = 12 -> Fall(Assign(f, trans(v, D(1, 1), "mm")))
      [] k = 13 ->
           Brk(Seek(f, IF isWithin(v, <<<<Zero, D(8, 1)>>>>) THEN D(17, -1) ELSE D(2, 0)))
      [] k = 14 ->
           Brk([Seek(f, IF isWithin(v, <<<<Zero, D(8, -2)>>>>) THEN D(15, -1) ELSE D(3, 0))
                EXCEPT !.normalizeVector = Vector(<<"µ", "m", "", "k">>)])
      [] k = 15 -> Brk(Seek(f, D(99, 0)))
      [] k = 16 ->
           Brk(Seek(f, Sub(Add(magniTude(v), D(1, 0)),
                           IF Gt(av, D(72, 1)) THEN D(1, 0) ELSE Zero)))
      [] k = 17 ->
           LET g == [f EXCEPT !.normalizeVector = Vector(<<"µ", "m", "">>)]
           IN  Brk(IF Lt(av, D(1, 3)) THEN Seek(g, D(15, -1))
                   ELSE [Seek(g, D(99, 0)) EXCEPT !.scaleSeeked = D(-2, 0)])

\* weight, pressure, energy and electricity: blocks 18-34 (lines 441-559)
BlockB(k, f, a) ==
    LET v  == f.value
        av == abs(f.value)
    IN
    CASE k = 18 ->
           IF ~a.siAsked
           THEN Brk(Seek(f, IF Lt(av, D(1, 1)) THEN D(18, -1)
                            ELSE IF Lt(av, D(1, 2)) THEN D(28, -1)
                            ELSE IF Lt(av, D(4, 2)) THEN D(38, -1)
                            ELSE D(3, 0)))
           ELSE Fall(Assign(f, trans(v, D(4536, -4), "kg")))
      [] k = 19 ->
           Brk([Seek(f, IF Lt(av, D(1, 1)) THEN D(18, -1)
                        ELSE IF Lt(av, D(1, 2)) THEN D(28, -1)
                        ELSE IF Lt(av, D(2, 2)) THEN D(38, -1)
                        ELSE D(3, 0))
                EXCEPT !.scaleSeeked = D(1, 0)])
      [] k = 20 ->
           IF ~a.siAsked
           THEN Brk(Seek(f,
                  CASE f.unit_i = "psi" ->
                         IF isWithin(v, <<<<D(147, -1), D(7, -1)>>>>) THEN D(35, -1) ELSE D(3, 0)
                    [] f.unit_i = "inHg" ->
                         IF isWithin(v, <<<<D(3, 1), D(15, -1)>>>>) THEN D(35, -1) ELSE D(3, 0)
                    [] f.unit_i = "mmHg" ->
                         IF isWithin(v, <<<<D(75, 1), D(77, 1)>>>>) THEN D(35, -1) ELSE D(3, 0)
                    [] OTHER -> D(3, 0)))
           ELSE Fall(f)
      [] k = 21 ->
           Brk(Hpa(CASE f.unit_i = "psi" -> Assign(f, trans(v, D(6894757, -5), "hPa"))
                     [] f.unit_i = "inHg" -> Assign(f, trans(v, D(3386386, -5), "hPa"))
                     [] f.unit_i = "mmHg" -> Assign(f, trans(v, D(133322, -5), "hPa"))
                     [] OTHER -> f))
      [] k = 22 ->
           Brk(Seek(f, IF isWithin(v, <<<<D(8, 4), D(1, 5)>>>>) THEN D(35, -1)
                       ELSE IF isWithin(v, <<<<D(1, 5), D(105, 3)>>>>) THEN D(45, -1)
                       ELSE D(3, 0)))
      [] k = 23 ->
           Brk(Seek(f, IF isWithin(v, <<<<D(8, -1), D(1, 0)>>>>) THEN D(35, -1)
                       ELSE IF isWithin(v, <<<<D(1, 0), D(105, -2)>>>>) THEN D(45, -1)
                       ELSE D(3, 0)))
      [] k = 24 -> Fall([f EXCEPT !.normalizeVector = normalizeVectorGeneric])
      [] k = 25 -> Brk(Kwh(f, Add(magniTude(v), D(15, -1))))
      [] k = 26 ->
           Brk([f EXCEPT !.normalizeVector = normalizeVectorGeneric, !.scaleSeeked = Zero])
      [] k = 27 -> Brk(Seek(f, D(3, 0)))
      [] k = 28 ->
           Brk([Seek(f, IF isWithin(v, << <<D(5, 1), D(3, -1)>>, <<D(6, 1), D(2, -1)>>,
                                          <<D(4, 2), D(1, 1)>> >>)
                        THEN D(28, -1) ELSE D(2, 0))
                EXCEPT !.normalizeVector = normalizeVectorGeneric])
      [] k = 29 -> Fall([f EXCEPT !.normalizeVector = normalizeVectorGeneric])
      [] k = 30 -> Brk(Seek(f, D(2, 0)))
      [] k = 31 -> Fall([f EXCEPT !.normalizeVector = normalizeVectorGeneric])
      [] k = 32 -> Brk(Seek(f, IF Lt(av, D(1, 2)) THEN D(15, -1) ELSE D(2, 0)))
      [] k = 33 -> Brk(Seek(f, IF Lt(av, D(1, 1)) THEN D(15, -1) ELSE D(18, -1)))
      [] k = 34 ->
           Brk([Seek(f, IF isWithin(v, << <<D(11, 1), D(5, 0)>>, <<D(23, 1), D(2, 1)>>,
                                          <<D(4, 2), D(4, 1)>> >>)
                        THEN D(28, -1) ELSE D(27, -1))
                EXCEPT !.normalizeVector = normalizeVectorGeneric])

\* volume, distance, data, ratios, angle and the default: blocks 35-46
\* (lines 563-645)
BlockC(k, f, a) ==
    LET v == f.value
    IN
    CASE k = 35 ->
           IF ~a.siAsked THEN Brk(Seek(f, D(28, -1)))
           ELSE Fall(Assign(f, trans(v, D(37854, -4), Replace(f.unit_i, "gal", "l"))))
      [] k = 36 ->
           Brk(Seek(f, IF f.unit_i = "l" /\ isWithin(v, <<<<D(8, 0), D(3, 2)>>>>)
                       THEN D(3, 0) ELSE D(28, -1)))
      [] k = 37 ->
           Fall(IF a.siAsked THEN Assign(f, trans(v, D(1609344, -6), "km")) ELSE f)
      [] k = 38 -> Brk(Seek(f, D(25, -1)))
      [] k = 39 -> Brk(Seek(f, D(25, -1)))
      [] k = 40 -> Brk([Seek(f, D(2, 0)) EXCEPT !.normalizeVector = NoVector])
      [] k = 41 ->
           Brk([Seek(f, D(2, 0)) EXCEPT !.normalizeVector = NoVector, !.debugFinal = FALSE])
      [] k = 42 -> Brk(Seek(f, D(25, -1)))
      [] k = 43 -> Fall([f EXCEPT !.unit_i = "%"])
      [] k = 44 ->
           Brk([Seek(f, IF isWithin(v, << <<Zero, D(4, 0)>>, <<D(87, 0), D(102, 0)>> >>)
                        THEN D(12, -1) ELSE D(15, -1))
                EXCEPT !.normalizeVector = NoVector])
      [] k = 45 -> Brk([Seek(f, D(2, 0)) EXCEPT !.normalizeVector = NoVector])
      [] OTHER -> Brk(f)

\* one block of the switch
Block(k, f, a) ==
    IF k <= 17 THEN BlockA(k, f, a)
    ELSE IF k <= 34 THEN BlockB(k, f, a)
    ELSE BlockC(k, f, a)

\* the blocks from k on, until one breaks; r is the outcome of block k
RECURSIVE RunFrom(_, _, _)
Continue(k, r, a) == IF r.brk \/ k = DefaultBlock THEN r.f ELSE RunFrom(k + 1, r.f, a)
RunFrom(k, f, a) == Continue(k, Block(k, f, a), a)

\* lines 360-646: switch (unit_i)
Switch(f, a) == RunFrom(Entry(f.unit_i), f, a)

\* an override that does not set the precision 0 apart
OverrideZero(f, a) ==
    [f EXCEPT !.precisionSeeked = IF a.precisionAsked # Undefined
                                  THEN a.precisionAsked ELSE f.precisionSeeked,
              !.scaleSeeked = IF a.scaleAsked # Undefined THEN a.scaleAsked ELSE f.scaleSeeked]

\* lines 648-657: a precision asked for overrides the policy, unless it is 0
Override(f, a) ==
    [f EXCEPT !.precisionSeeked = IF a.precisionAsked # Undefined /\ a.precisionAsked # Zero
                                  THEN a.precisionAsked ELSE f.precisionSeeked,
              !.scaleSeeked = IF a.scaleAsked # Undefined THEN a.scaleAsked ELSE f.scaleSeeked]

\* lines 351-657
UnitPolicy(f, a) == Override(Switch(ForceUnit(f, a), a), a)

---------------------------------------------------------------------------
(* significantTransform: rounding (lines 659-763)                          *)

\* lines 54-77: the borders and middles of the fractional precisions
BORDERS1 ==
    [mult \in 2..5 |->
        CASE mult = 2 -> <<D(25, -1), D(75, -1)>>
          [] mult = 3 -> <<D(15, -1), D(45, -1), D(8, 0)>>
          [] mult = 4 -> <<D(1, 0), D(35, -1), D(6, 0), D(85, -1)>>
          [] mult = 5 -> <<D(1, 0), D(3, 0), D(5, 0), D(7, 0), D(9, 0)>>]
\* middles with an entry beyond its border: 8 instead of 5 for mult = 2
MIDDLES1Beyond ==
    [mult \in 2..5 |->
        CASE mult = 2 -> <<Zero, D(8, 0), D(1, 1)>>
          [] mult = 3 -> <<Zero, D(3, 0), D(6, 0), D(1, 1)>>
          [] mult = 4 -> <<Zero, D(2, 0), D(5, 0), D(7, 0), D(1, 1)>>
          [] mult = 5 -> <<Zero, D(2, 0), D(4, 0), D(6, 0), D(8, 0), D(1, 1)>>]
MIDDLES1 ==
    [mult \in 2..5 |->
        CASE mult = 2 -> <<Zero, D(5, 0), D(1, 1)>>
          [] mult = 3 -> <<Zero, D(3, 0), D(6, 0), D(1, 1)>>
          [] mult = 4 -> <<Zero, D(2, 0), D(5, 0), D(7, 0), D(1, 1)>>
          [] mult = 5 -> <<Zero, D(2, 0), D(4, 0), D(6, 0), D(8, 0), D(1, 1)>>]
BORDERS0 ==
    [mult \in 2..5 |->
        CASE mult = 2 -> <<D(3, 0), D(75, -1)>>
          [] mult = 3 -> <<D(2, 0), D(45, -1), D(8, 0)>>
          [] mult = 4 -> <<D(15, -1), D(35, -1), D(6, 0), D(85, -1)>>
          [] mult = 5 -> <<D(15, -1), D(3, 0), D(5, 0), D(7, 0), D(9, 0)>>]
MIDDLES0 ==
    [mult \in 2..5 |->
        CASE mult = 2 -> <<D(1, 0), D(5, 0), D(1, 1)>>
          [] mult = 3 -> <<D(1, 0), D(3, 0), D(6, 0), D(1, 1)>>
          [] mult = 4 -> <<D(1, 0), D(2, 0), D(5, 0), D(7, 0), D(1, 1)>>
          [] mult = 5 -> <<D(1, 0), D(2, 0), D(4, 0), D(6, 0), D(8, 0), D(1, 1)>>]

\* 10^k modulo d
RECURSIVE PowMod(_, _)
PowMod(k, d) == IF k <= 0 THEN 1 % d ELSE (10 * PowMod(k - 1, d)) % d

\* x % d for a finite x with abs(x) >= d, d a positive integer below 1000
RemInt(x, d) ==
    IF x.e >= 0
    THEN Mk(SgnI(x.m) * (((AbsI(x.m) % d) * PowMod(x.e, d)) % d), 0)
    ELSE Mk(SgnI(x.m) * (AbsI(x.m) % (d * Pow10i(-x.e))), x.e)

\* x % y, the remainder with the sign of x, for a positive integer y < 1000
Rem(x, y) ==
    IF ~IsFin(x) \/ ~IsFin(y) THEN NaN
    ELSE IF Lt(abs(x), y) THEN x
    ELSE RemInt(x, ToInt(y))

\* lines 659-661: the skew
Skew(f, a) ==
    [f EXCEPT !.targetPrecisionSeeked = f.precisionSeeked,
              !.finalUnit = f.unit_i,
              !.value = Add(f.value, IF a.skewAsked # Undefined THEN a.skewAsked ELSE Zero)]

\* lines 667-673: the sector v of the angle value
AngleSector(f, value, angledivider, v) ==
    [f EXCEPT !.value = value, !.angledivider = angledivider,
              !.newValue = Rem(IF f.precisionSeeked = D(1, 0) \/ f.precisionSeeked = D(2, 0)
                               THEN Mul(floor(Add(v, D(5, -1))), angledivider)
                               ELSE Add(Mul(floor(v), angledivider),
                                        Div(angledivider, D(2, 0))),
                               D(36, 1))]
AngleOf(f, value, angledivider) ==
    AngleSector(f, value, angledivider, roundTo(Div(value, angledivider), 5))

\* lines 665-673: an angle is rounded to a step of the compass
Angle(f) ==
    AngleOf(f, Rem(Add(Rem(f.value, D(36, 1)), D(36, 1)), D(36, 1)),
            Div(D(9, 1), floor(f.precisionSeeked)))

\* lines 678-685: the divisor and the multiplier
Multiplied(v1, a) == IF a.multAsked # Undefined THEN Mul(v1, a.multAsked) ELSE v1
DivMult(f, a) ==
    [f EXCEPT !.value = Multiplied(IF a.divAsked # Undefined THEN Div(f.value, a.divAsked)
                                   ELSE f.value, a)]

\* lines 688-693: the integral and the fractional part of the precision
SplitAt(f, p, magnit) ==
    [f EXCEPT !.frac = roundTo(Sub(f.precisionSeeked, p), 1),
              !.precisionSeeked = p, !.magnit = magnit,
              !.power = Pow10(Add(Sub(magnit, p), D(1, 0)))]
SplitPrecision(f) == SplitAt(f, floor(f.precisionSeeked), magniTude(f.value))

\* line 721: the number of leading borders below normalizedvalue
RECURSIVE Iterate(_, _, _)
Iterate(i, borders, normalizedvalue) ==
    IF i < Len(borders) /\ Gt(normalizedvalue, borders[i + 1])
    THEN Iterate(i + 1, borders, normalizedvalue)
    ELSE i

\* lines 719-723
FracRounded(f, frac, sign, cut, unit, normalizedvalue, borders, middles) ==
    [f EXCEPT !.frac = frac,
              !.newValue = toPrec(Add(cut, Mul(Mul(sign, middles[Iterate(0, borders,
                                                                 normalizedvalue) + 1]),
                                               unit)),
                                  Add(f.precisionSeeked, D(1, 0)))]

\* lines 705-718: cut is the newValue of line 704, unit the power of ten
\* of line 705
FracTables(f, frac, sign, mult, cut, unit) ==
    FracRounded(f, frac, sign, cut, unit, Div(Mul(sign, Sub(f.value, cut)), unit),
                IF Lt(abs(cut), D(1, -12)) THEN BORDERS0[mult] ELSE BORDERS1[mult],
                IF Lt(abs(cut), D(1, -12)) THEN MIDDLES0[mult] ELSE MIDDLES1[mult])

\* lines 701-705
FracCut(f, frac, sign) ==
    FracTables(f, frac, sign, ToInt(clamp(ceil(Div(D(1, 0), frac)), D(2, 0), D(5, 0))),
               Mul(Mul(sign, floor(Div(abs(f.value), f.power))), f.power),
               Pow10(Sub(f.magnit, f.precisionSeeked)))

\* a rounding to a fractional precision that takes every value as positive
FractionalUnsigned(f) ==
    FracCut(f, roundTo(IF Gt(f.frac, D(5, -1)) THEN Sub(D(1, 0), f.frac) ELSE f.frac, 1),
            D(1, 0))

\* lines 699-723: rounding to a fractional precision
Fractional(f) ==
    FracCut(f, roundTo(IF Gt(f.frac, D(5, -1)) THEN Sub(D(1, 0), f.frac) ELSE f.frac, 1),
            IF Lt(f.value, Zero) THEN D(-1, 0) ELSE D(1, 0))

\* a rounding that consults the tables whatever the precision
RoundValueByTable(f) == Fractional(f)

\* lines 695-727
RoundValue(f) ==
    IF Gt(f.frac, Zero) /\ Gt(f.precisionFound, f.precisionSeeked)
    THEN Fractional(f)
    ELSE [f EXCEPT !.newValue = toPrec(f.value, f.precisionSeeked)]

\* normalizeVector.indexOf(""), counted from 0
IndexIn(hits) == IF hits = {} THEN -1 ELSE Least(hits) - 1
IndexOfEmpty(v) == IndexIn({k \in 1..Len(v) : v[k] = ""})

\* normalizeVector[k], counted from 0: "" stands for every falsy outcome
PrefixAt(v, k) == IF k >= 0 /\ k < Len(v) THEN v[k + 1] ELSE ""

\* lines 748-750: zeros at the end of the fraction and an exponent of 0
\* go; the "e" of str is at e, its "." at dot, its last digit to keep at last
CutExp(expo) == IF expo = "e+0" THEN "" ELSE expo
CutZeros(str, dot, last) == IF last = dot THEN Slice(str, 1, dot - 1) ELSE Slice(str, 1, last)
CutFraction(str, e, dot) ==
    CutZeros(str, dot, Greatest({k \in dot..(e - 1) : k = dot \/ Ch(str, k) # "0"}))
CutMantissa(str, e, dots) ==
    (IF dots = {} THEN Slice(str, 1, e - 1) ELSE CutFraction(str, e, Least(dots)))
    \o CutExp(From(str, e))
CutAt(str, es, dots) == IF es = {} THEN str ELSE CutMantissa(str, Least(es), dots)
CutFigures(str) ==
    CutAt(str, {k \in 1..Len(str) : Ch(str, k) = "e"}, {k \in 1..Len(str) : Ch(str, k) = "."})

\* Number.EPSILON
EPSILON == D(2220446, -22)

\* lines 736-740: the prefix of the unit, if normalizeVector has one
Prefixed(f, scale3, prefix) ==
    IF prefix # ""
    THEN [f EXCEPT !.newValue = Div(f.newValue, Pow10(Mul(D(3, 0), scale3))),
                   !.finalUnit = prefix \o f.unit_i]
    ELSE f

\* lines 744-750: str is the outcome of toExponential
Cut(g, str) ==
    IF Threw(str) THEN [g EXCEPT !.threw = TRUE]
    ELSE [g EXCEPT !.newValue = Str(CutFigures(str.str))]
Exponential(g) ==
    Cut(g, toExponential(g.newValue,
                         Sub(min(g.precisionFound, ceil(Add(g.precisionSeeked, g.frac))),
                             D(1, 0))))

\* lines 755-760; rnd is Math.round(Math.random() * 100)
FlickerAmount(power, rnd) ==
    Div(Mul(Div(Mk(rnd, 0), D(1, 2)), D(1, -4)),
        IF IsFin(power) /\ power # Zero THEN power ELSE D(1, 0))
Flickered(f, a, rnd, newValue) ==
    [f EXCEPT !.newValue = IF a.flickerEnabled THEN Add(newValue, FlickerAmount(f.power, rnd))
                           ELSE newValue]

\* lines 754-760
Flicker(f, a, rnd) ==
    Flickered(f, a, rnd, Add(f.newValue, IF a.testingAsked THEN EPSILON ELSE Zero))

\* lines 728-761: normalisation to a prefix of the unit, or the flicker
Normalized(f, a, rnd, scale3) ==
    IF scale3 # Zero /\ f.normalizeVector.defined
    THEN Exponential(Prefixed(f, scale3,
                              IF IsFin(scale3)
                              THEN PrefixAt(f.normalizeVector.v,
                                            ToInt(scale3) + IndexOfEmpty(f.normalizeVector.v))
                              ELSE ""))
    ELSE Flicker(f, a, rnd)
Normalize(f, a, rnd) == Normalized(f, a, rnd, trunc(Div(magniTude(f.newValue), D(3, 0))))

\* lines 663-763 on the locals g after the skew
Rounded(g, a, rnd) ==
    IF g.unit_i = "°" THEN Angle(g)
    ELSE IF g.value = Zero THEN [g EXCEPT !.debugFinal = FALSE]
    ELSE Normalize(RoundValue(SplitPrecision(DivMult(g, a))), a, rnd)

\* a rounding that adds the skew after the divisor and the multiplier
RoundingSkewLast(f, a, rnd) ==
    IF f.unit_i = "°" THEN Angle(Skew(f, a))
    ELSE IF f.value = Zero THEN [Skew(f, a) EXCEPT !.debugFinal = FALSE]
    ELSE Normalize(RoundValue(SplitPrecision(Skew(DivMult(f, a), a))), a, rnd)

\* lines 659-763; threw says whether toExponential threw
Rounding(f, a, rnd) == Rounded(Skew(f, a), a, rnd)

\* lines 770-775: the value returned; atFive says whether the seconds of
\* the clock are a multiple of five
Returned(f, a, atFive) ==
    IF a.testingAsked /\ atFive THEN fmt(f.origValue, f.origUnit)
    ELSE fmt(f.newValue, f.finalUnit)

\* lines 134-162 and 303-307: the locals before the input is parsed; the
\* global debugFinal is carried along with them, returned holds the value
\* of an early return and threw tells of an exception
Locals(i, dbg) ==
    [input |-> trim(i), unit_i |-> "", value |-> Undefined,
     origValue |-> Zero, newValue |-> Zero, origUnit |-> "", finalUnit |-> "",
     scaleSeeked |-> Undefined, angledivider |-> D(1, 0),
     precisionSeeked |-> D(2, 0), precisionFound |-> D(5, -1),
     normalizeVector |-> Vector(<<>>), targetPrecisionSeeked |-> Undefined,
     frac |-> Undefined, magnit |-> Undefined, power |-> Undefined,
     debugFinal |-> dbg, returned |-> <<>>, threw |-> FALSE]

\* significantTransform(i, opts) as a whole, step by step: the string
\* returned, or the RangeError thrown
AfterRounding(a, r, atFive) == IF r.threw THEN RangeError ELSE Str(Returned(r, a, atFive))
AfterParse(a, pv, rnd, atFive) ==
    IF pv.returned # <<>> THEN Str(pv.returned[1])
    ELSE AfterRounding(a, Rounding(UnitPolicy(pv, a), a, rnd), atFive)
Transformed(a, f0, rnd, atFive) ==
    IF DtMatch(f0.input) THEN Str(DateTimeOutput(f0.input, a.scaleAsked))
    ELSE AfterParse(a, ParseValue(f0), rnd, atFive)
significantTransform(i, opts, dbg, rnd, atFive) ==
    Transformed(ParseOptions(opts), Locals(i, dbg), rnd, atFive)

---------------------------------------------------------------------------
(* The state: the globals of the script (lines 30-36), the call in         *)
(* progress and the position in it.                                        *)

VARIABLES verboseAsked, testingAsked, debugEnabled, flickerEnabled,
          verboseIncreased, debugFinal, logged,
          pc, i, opts, asked, f, ret, arg, out

globals == <<verboseAsked, testingAsked, debugEnabled, flickerEnabled,
             verboseIncreased, debugFinal>>
call == <<i, opts, asked, f>>
harness == <<arg, out>>
vars == <<globals, logged, pc, call, ret, harness>>

\* line 35
alwaysLogFinal == FALSE

\* no value: of a call not in progress, of a result not yet there
None == [none |-> TRUE]

\* lines 30-36: the script is loaded, no call is in progress
Loaded ==
    /\ verboseAsked = FALSE /\ testingAsked = FALSE /\ debugEnabled = FALSE
    /\ flickerEnabled = FALSE /\ verboseIncreased = FALSE /\ debugFinal = TRUE
    /\ logged = FALSE
    /\ pc = "idle"
    /\ i = "" /\ opts = <<>> /\ asked = None /\ f = None /\ ret = None

Init == Loaded /\ arg = None /\ out = None

\* lines 118-256: significantTransform is called with an input from I and
\* options from O; the flags are reset and the options parsed
Invoke(I, O) ==
    /\ pc = "idle"
    /\ \E input \in I, o \in O : i' = input /\ opts' = o
    /\ asked' = ParseOptions(opts')
    /\ f' = Locals(i', debugFinal)
    /\ verboseAsked' = asked'.verboseAsked
    /\ testingAsked' = asked'.testingAsked
    /\ flickerEnabled' = asked'.flickerEnabled
    /\ debugEnabled' = FALSE
    /\ verboseIncreased' = FALSE
    /\ logged' = FALSE
    /\ pc' = "datetime"
    /\ UNCHANGED <<debugFinal, ret, harness>>

\* lines 265-300: a timestamp is rounded and returned at once
DateTime ==
    /\ pc = "datetime"
    /\ IF DtMatch(f.input)
       THEN /\ ret' = Str(DateTimeOutput(f.input, asked.scaleAsked))
            /\ pc' = "done"
       ELSE /\ pc' = "parse"
            /\ ret' = ret
    /\ UNCHANGED <<globals, logged, call, harness>>

\* lines 303-348: the value, the unit and the digits found; an input that
\* is no number is returned
Parse ==
    /\ pc = "parse"
    /\ f' = ParseValue(f)
    /\ IF f'.returned # <<>>
       THEN ret' = Str(f'.returned[1]) /\ pc' = "done"
       ELSE ret' = ret /\ pc' = "policy"
    /\ UNCHANGED <<globals, logged, i, opts, asked, harness>>

\* lines 351-657: the unit decides the precision, conversions happen
Policy ==
    /\ pc = "policy"
    /\ f' = UnitPolicy(f, asked)
    /\ debugFinal' = f'.debugFinal
    /\ pc' = "round"
    /\ UNCHANGED <<verboseAsked, testingAsked, debugEnabled, flickerEnabled,
                   verboseIncreased, logged, i, opts, asked, ret, harness>>

\* Math.round(Math.random() * 100) at line 757
Draws == 0..100

\* lines 659-763: the value is rounded; toExponential may throw
Round ==
    /\ pc = "round"
    /\ \E rnd \in IF flickerEnabled THEN Draws ELSE {0} : f' = Rounding(f, asked, rnd)
    /\ IF f'.threw
       THEN ret' = RangeError /\ pc' = "done"
       ELSE ret' = ret /\ pc' = "final"
    /\ debugFinal' = f'.debugFinal
    /\ UNCHANGED <<verboseAsked, testingAsked, debugEnabled, flickerEnabled,
                   verboseIncreased, logged, i, opts, asked, harness>>

\* lines 765-775: the final line is logged and the result returned
Final ==
    /\ pc = "final"
    /\ \E atFive \in IF testingAsked THEN BOOLEAN ELSE {FALSE} :
          ret' = Str(Returned(f, asked, atFive))
    /\ logged' = (verboseAsked \/ debugEnabled \/ testingAsked
                    \/ alwaysLogFinal \/ debugFinal)
    /\ pc' = "done"
    /\ UNCHANGED <<globals, call, harness>>

\* the caller takes the result; the globals stay as the call left them
Return ==
    /\ pc = "done"
    /\ pc' = "idle"
    /\ i' = "" /\ opts' = <<>> /\ asked' = None /\ f' = None /\ ret' = None
    /\ UNCHANGED <<globals, logged, harness>>

\* the steps of a call that has begun
Step == DateTime \/ Parse \/ Policy \/ Round \/ Final \/ Return

---------------------------------------------------------------------------
(* Calls with inputs of every kind: numbers with and without a unit, text  *)
(* that is no number, timestamps; options of every kind.                   *)

\* every unit the switch at line 360 names, a unit it does not know, none
KnownUnits == UNION {Labels(k) : k \in Blocks}
Units == KnownUnits \cup {"", "xyz"}

WithUnit(numbers, units) ==
    {IF u = "" THEN n ELSE n \o " " \o u : n \in numbers, u \in units}

Numbers == {"0", "5", "-2.5", "12.345", "3.14159", "1234", "0.00012", "1.20e3"}
LongNumbers == {"1" \o Zeros(101), "1234." \o Zeros(98)}
NoNumbers == {"abc", " abc ", "", "  ", "NaN", "Infinity", "a 1-2", " -", "on "}
Intervals == {"0-1", "1-2", "2-3"}
Inputs == WithUnit(Numbers, Units) \cup LongNumbers \cup NoNumbers \cup Intervals

Options ==
    {<<>>, [si |-> "false"], [scale |-> "0"], [precision |-> "102"], [precision |-> "0"],
     [mult |-> "3"], [div |-> "1k"], [skew |-> "0.5"], [unit |-> "."], [verbose |-> "true"]}

\* timestamps, and the levels of scale 0..4, one beside and one beyond them
Timestamps ==
    {"2025-09-27T14:16:28.000+0200", "2025-12-31 23:59:59.600-0530",
     "2024-02-28T23:30:00.499+0000"}
Levels ==
    {<<>>, [scale |-> "0"], [scale |-> "1"], [scale |-> "2"], [scale |-> "3"],
     [scale |-> "4"], [scale |-> "1.5"], [scale |-> "7"]}

\* calls that draw a random number or read the clock
ChanceInputs == {"5.25 V", "0.5", "12 °C"}
ChanceOptions == {[flicker |-> "true"], [testing |-> "true"],
                  [flicker |-> "on", testing |-> "1"]}

Next ==
    \/ Invoke(Inputs, Options)
    \/ Invoke(Timestamps, Levels)
    \/ Invoke(ChanceInputs, ChanceOptions)
    \/ Step

Spec == Init /\ [][Next]_vars

---------------------------------------------------------------------------
(* What a call returns                                                     *)

\* the call in progress has ended in the rounding branch: no timestamp,
\* no early return, no exception
RoundedReturn == pc = "done" /\ IsStr(ret) /\ f.returned = <<>> /\ ~DtMatch(f.input)

\* C1: a call never throws: whatever the input and the options, it ends by
\* returning a string
NeverThrows == pc = "done" => IsStr(ret)

\* an input that is no timestamp, has no leading numeric token and holds
\* no interval
Unparseable(s) ==
    ~DtMatch(trim(s)) /\ ~Literal(trim(s)).ok /\ ~IntervalMatch(trim(s)).ok

\* C2: an input that cannot be parsed is returned unchanged, character for
\* character, with the white space around it
UnparseableUnchanged == pc = "done" /\ Unparseable(i) => ret = Str(i)

\* the digits of the number at the start of s without the zeros before them
Mantissa(s) ==
    LET l == Literal(s)
        d == l.intD \o l.fracD
    IN  From(d, ScanWhile(d, 1, IsZeroChar))

\* the digits of s up to the last one that is not 0
Unpadded(s) ==
    LET nz == {k \in 1..Len(s) : Ch(s, k) # "0"}
    IN  IF nz = {} THEN "" ELSE Slice(s, 1, Greatest(nz))

\* the decimal places of the number at the start of s
Decimals(s) ==
    LET l == Literal(s)
    IN  MaxI(0, Len(Unpadded(l.fracD)) - l.expo)

\* C4: with the option scale the number returned has at most that many
\* decimal places: with scale=0 it is an integer
ScaleRoundsDecimals ==
    RoundedReturn /\ asked.scaleAsked # Undefined /\ IsInteger(asked.scaleAsked)
        /\ Ge(asked.scaleAsked, Zero)
    => Decimals(ret.str) <= ToInt(asked.scaleAsked)

\* the significant digits of the number at the start of s
SignificantDigits(s) == Len(Unpadded(Mantissa(s)))

\* C7: the number returned has at most precisionFound significant digits,
\* the significant digits of the number in the input
NoFabricatedPrecision ==
    RoundedReturn => Le(Mk(SignificantDigits(ret.str), 0), f.precisionFound)

\* the imperial units
Imperial ==
    {"°F", "kn", "mph", "in/h", "yd", "ft", "in", "lbs", "psi", "inHg", "mmHg",
     "gal", "gal/min", "mi"}

\* C9: with si=false a value in an imperial unit keeps its unit and is only
\* rounded, never multiplied by a conversion factor
ImperialUnconverted ==
    RoundedReturn /\ opts = [si |-> "false"] /\ f.origUnit \in Imperial
    => f.finalUnit = f.origUnit /\ f.value = f.origValue

\* the levels of the date-time scale
LevelAsked == asked # None /\ asked.scaleAsked \in {Zero, D(1, 0), D(2, 0), D(3, 0), D(4, 0)}

\* C10: a timestamp rounded at a level 0..4 is returned in the format of the
\* input, milliseconds included, with the separator and the offset of the
\* input; "2025-09-27T14:16:28.000+0200" at level 2 gives
\* "2025-09-27T14:16:00.000+0200"
TimestampFormatKept ==
    pc = "done" /\ DtMatch(f.input) /\ LevelAsked
    => /\ IsStr(ret)
       /\ DtMatch(ret.str)
       /\ Ch(ret.str, 11) = Ch(f.input, 11)
       /\ From(ret.str, 24) = From(f.input, 24)
       /\ (i = "2025-09-27T14:16:28.000+0200" /\ asked.scaleAsked = D(2, 0)
             => ret.str = "2025-09-27T14:16:00.000+0200")

---------------------------------------------------------------------------
(* A precision asked for: a number in every unit, with a precision that is *)
(* zero, whole or fractional, given as precision or as prec                *)

PrecisionNumbers == {"12.345", "0", "-1234.5"}
PrecisionOptions ==
    {<<>>, [precision |-> "3"], [precision |-> "1.5"], [prec |-> "4"],
     [precision |-> "2", si |-> "false"], [precision |-> "-1"],
     [precision |-> "0"], [prec |-> "0"], [precision |-> "0.0", si |-> "false"],
     [precision |-> "0", prec |-> "3"], [precision |-> "-0", unit |-> "."]}

NextPrecision == Invoke(WithUnit(PrecisionNumbers, Units), PrecisionOptions) \/ Step

SpecPrecision == Init /\ [][NextPrecision]_vars

\* the options o without precision and prec
WithoutPrecision(o) == [k \in DOMAIN o \ {"precision", "prec"} |-> o[k]]

\* a precision is asked for and it is not 0
PrecisionGiven == asked.precisionAsked # Undefined /\ asked.precisionAsked # Zero

\* C3: a precision asked for that is not 0 replaces the precision of the
\* unit, whatever the unit, and the rounding uses it; a precision of 0 is
\* ignored: the call returns what it returns without the option
PrecisionOverrides ==
    /\ pc = "round" /\ PrecisionGiven => f.precisionSeeked = asked.precisionAsked
    /\ pc = "final" /\ PrecisionGiven =>
          /\ f.targetPrecisionSeeked = asked.precisionAsked
          /\ f.unit_i # "°" /\ f.value # Zero => f.precisionSeeked = floor(asked.precisionAsked)
    /\ pc = "done" /\ (Has(opts, "precision") \/ Has(opts, "prec"))
          /\ asked.precisionAsked = Zero
       => ret = significantTransform(i, WithoutPrecision(opts), debugFinal, 0, FALSE)

\* a pressure is rounded with the precision 1.5 asked for
PrecisionOverridden ==
    /\ pc = "final" /\ f.origUnit = "hPa"
    /\ asked.precisionAsked = D(15, -1) /\ f.targetPrecisionSeeked = D(15, -1)
    /\ f.precisionSeeked = D(1, 0)

---------------------------------------------------------------------------
(* toPrec and magniTude on their own: x = m * 10^e and sigfigs drawn from  *)
(* bounded sets                                                            *)

MaxMantissa == 125
MaxExponent == 2
MaxSigfigs == 4

InitToPrec ==
    /\ Loaded
    /\ arg \in {[x |-> Mk(m, e), sigfigs |-> n] :
                   m \in -MaxMantissa..MaxMantissa, e \in -MaxExponent..MaxExponent,
                   n \in -1..MaxSigfigs}
    /\ out = None

\* toPrec(x, sigfigs) and magniTude(x) are computed
ApplyToPrec ==
    /\ pc = "idle" /\ arg # None /\ out = None
    /\ out' = [toPrec |-> toPrec(arg.x, Mk(arg.sigfigs, 0)), magniTude |-> magniTude(arg.x)]
    /\ UNCHANGED <<globals, logged, pc, call, ret, arg>>

SpecToPrec == InitToPrec /\ [][ApplyToPrec]_vars

\* floor(log10(|x|)) for a finite x that is not 0
Magnitude(x) == NDigits(AbsI(x.m)) + x.e - 1

\* m / d rounded to the nearest integer, a tie toward +Infinity
HalfUp(m, d) == (2 * m + d) \div (2 * d)

\* round(x * 10^k) / 10^k with k = n - magnitude(x) - 1, in integers
ClosedForm(x, n) ==
    LET k == n - Magnitude(x) - 1
    IN  IF x.e + k >= 0 THEN x ELSE Mk(HalfUp(x.m, Pow10i(-(x.e + k))), -k)

\* C5: toPrec(x, n) is round(x * 10^(n - magnitude(x) - 1)) divided by the
\* same power of ten for every x that is not 0, with magnitude(x) =
\* floor(log10(|x|)) and halves rounded up; toPrec(0, n) and magnitude(0) are 0
ToPrecClosedForm ==
    out # None =>
        IF arg.x = Zero
        THEN out.toPrec = Zero /\ out.magniTude = Zero
        ELSE /\ out.toPrec = ClosedForm(arg.x, arg.sigfigs)
             /\ out.magniTude = Mk(Magnitude(arg.x), 0)

\* -2.5 is rounded to one digit: the tie goes up, to -2
TieRoundedUp ==
    out # None /\ arg.x = D(-25, -1) /\ arg.sigfigs = 1 /\ out.toPrec = D(-2, 0)

---------------------------------------------------------------------------
(* Fractional precisions: values without a unit, every precision n + f     *)

MaxValue == 50
MaxShift == 2
MaxWhole == 2

FractionalValues ==
    {NumberToString(Signed(sg, Mk(m, e))) :
        m \in 1..MaxValue, e \in {-MaxShift, 0, MaxShift}, sg \in {-1, 1}}
FractionalPrecisions ==
    {[precision |-> IntToStr(n) \o "." \o DigitStr(t)] : n \in 0..MaxWhole, t \in 0..9}

NextFractional == Invoke(FractionalValues, FractionalPrecisions) \/ Step

SpecFractional == Init /\ [][NextFractional]_vars

\* every middle of a table lies in its own class of the borders
OntoItself(borders, middles) ==
    \A k \in 1..Len(middles) : middles[Iterate(0, borders, middles[k]) + 1] = middles[k]

\* C6: rounding at a fractional precision is idempotent: what a call
\* returns for a value without a unit is returned unchanged by a second
\* call with the same precision; every middle is classified onto itself
FractionalIdempotent ==
    /\ pc = "done" /\ IsStr(ret)
       => significantTransform(ret.str, opts, debugFinal, 0, FALSE) = ret
    /\ \A mult \in 2..5 : /\ OntoItself(BORDERS1[mult], MIDDLES1[mult])
                          /\ OntoItself(BORDERS0[mult], MIDDLES0[mult])

\* 4400 at the precision 1.5 has been rounded to the middle 5: 4.5e+3
RoundedToMiddle ==
    /\ pc = "done" /\ i = "4400" /\ asked.precisionAsked = D(15, -1)
    /\ ret = Str("4.5e+3")

---------------------------------------------------------------------------
(* Temperatures in °F, in tenths of a degree, with the conversion to SI    *)
(* that is the default                                                     *)

MaxTenths == 400

FahrenheitInputs == {NumberToString(Mk(t, -1)) \o " °F" : t \in -MaxTenths..MaxTenths}
SiOptions == {<<>>, [si |-> "true"], [si |-> "yes"]}

NextFahrenheit == Invoke(FahrenheitInputs, SiOptions) \/ Step

SpecFahrenheit == Init /\ [][NextFahrenheit]_vars

\* line 368: the precision of a temperature of v °C
CelsiusPrecision(v) ==
    IF Lt(abs(v), D(1, 0)) THEN D(7, -1)
    ELSE IF Lt(abs(v), D(1, 1)) THEN D(15, -1)
    ELSE D(25, -1)

\* a and b differ by less than a millionth of the greater
Close(a, b) == Le(abs(Sub(a, b)), Mul(D(1, -6), max(abs(a), abs(b))))

\* C8: a temperature of v °F is converted to (v - 32) * 5 / 9 °C and gets
\* the precision of that temperature in °C; "32 °F" gives "0 °C"
FahrenheitConverted ==
    /\ pc = "round" =>
          /\ f.unit_i = "°C"
          /\ Close(Mul(D(9, 0), f.value), Mul(D(5, 0), Sub(f.origValue, D(32, 0))))
          /\ f.precisionSeeked = CelsiusPrecision(f.value)
    /\ pc = "done" => IsStr(ret) /\ f.finalUnit = "°C" /\ From(ret.str, Len(ret.str) - 2) = " °C"
    /\ pc = "done" /\ i = "32 °F" => ret = Str("0 °C")

\* "32 °F" has been converted
FreezingPoint == pc = "done" /\ i = "32 °F" /\ opts = <<>> /\ ret = Str("0 °C")

---------------------------------------------------------------------------
(* The instant a timestamp returned denotes                                *)

\* s has the shape YYYY-MM-DD?HH:MM:SS[.mmm](+|-)HHMM
IsTimestamp(s) ==
    /\ Len(s) \in {24, 28}
    /\ \A k \in {1, 2, 3, 4, 6, 7, 9, 10, 12, 13, 15, 16, 18, 19} : IsDigit(Ch(s, k))
    /\ Len(s) = 28 => \A k \in {21, 22, 23} : IsDigit(Ch(s, k))
    /\ Ch(s, Len(s) - 4) \in {"+", "-"}
    /\ \A k \in (Len(s) - 3)..Len(s) : IsDigit(Ch(s, k))

\* the instant, in UTC, that the timestamp s denotes
InstantOf(s) ==
    Later(DateUTC(SmallInt(Slice(s, 1, 4)), SmallInt(Slice(s, 6, 7)) - 1,
                  SmallInt(Slice(s, 9, 10)), SmallInt(Slice(s, 12, 13)),
                  SmallInt(Slice(s, 15, 16)), SmallInt(Slice(s, 18, 19)),
                  IF Len(s) = 28 THEN SmallInt(Slice(s, 21, 23)) ELSE 0),
          -(OffsetMinutes(From(s, Len(s) - 4)) * 60000))

\* the milliseconds from the instant t to the instant u
MsBetween(t, u) == (u.day - t.day) * MsPerDay + (u.ms - t.ms)

\* the instant u is the multiple of the unit of level nearest to t
NearestMultiple(t, u, level) ==
    /\ u.ms % UnitMs(level) = 0
    /\ 2 * AbsI(MsBetween(t, u)) <= UnitMs(level)

\* C11: a timestamp is rounded on the absolute instant: whatever the scale
\* and the offset, the output denotes the multiple of the unit of one of the
\* levels 0..4 (the scale asked, clamped; 3 by default) that is nearest to
\* the instant of the input, at most half a unit away
RoundedOnInstant ==
    pc = "done" /\ DtMatch(f.input)
    => /\ IsStr(ret)
       /\ IsTimestamp(ret.str)
       /\ \E level \in 0..4 :
             /\ asked.scaleAsked = Undefined => level = 3
             /\ asked.scaleAsked # Undefined /\ IsInteger(asked.scaleAsked)
                   => level = ToInt(clamp(asked.scaleAsked, Zero, D(4, 0)))
             /\ NearestMultiple(InstantOf(f.input), InstantOf(ret.str), level)

---------------------------------------------------------------------------
(* Intervals                                                               *)

\* the interval "<a>-<b>" of two digits, and the number its mean is written as
IntervalOf(a, b) == IntToStr(a) \o "-" \o IntToStr(b)
MeanOf(a, b) == NumberToString(Div(Mk(a + b, 0), D(2, 0)))

\* C12: an interval "<a>-<b>" is returned as its arithmetic mean, without a
\* unit: "1-2" gives 1.5 and "2-3" gives 2.5
IntervalMean ==
    \A a, b \in 0..9 :
        pc = "done" /\ i = IntervalOf(a, b) /\ opts = <<>> => ret = Str(MeanOf(a, b))

---------------------------------------------------------------------------
(* The adjustments before rounding: values with and without a unit, with   *)
(* every combination of a skew, a divisor and a multiplier                 *)

AdjustNumbers == {"10", "-3", "0.5", "7"}
AdjustUnits == {"", "m", "KiB", "°C", "°F", "°"}
AdjustSkews == {<<>>, [skew |-> "1"], [skew |-> "-0.5"]}
AdjustDivs == {<<>>, [div |-> "2"], [div |-> "4"], [div |-> "1k"]}
AdjustMults == {<<>>, [mult |-> "3"], [mult |-> "0.1"]}
AdjustOptions == {s @@ d @@ m : s \in AdjustSkews, d \in AdjustDivs, m \in AdjustMults}

NextAdjust == Invoke(WithUnit(AdjustNumbers, AdjustUnits), AdjustOptions) \/ Step

SpecAdjust == Init /\ [][NextAdjust]_vars

\* the options of the call as numbers: no skew is 0, no divisor and no
\* multiplier are 1
SkewGiven == IF asked.skewAsked # Undefined THEN asked.skewAsked ELSE Zero
DivGiven == IF asked.divAsked # Undefined THEN asked.divAsked ELSE D(1, 0)
MultGiven == IF asked.multAsked # Undefined THEN asked.multAsked ELSE D(1, 0)

\* the rounding step of a value that is no angle
RoundsValue == pc = "round" /\ pc' = "final" /\ f.unit_i # "°"

SkewAddedLast ==
    [][RoundsValue => f'.value = Add(Mul(Div(f.value, DivGiven), MultGiven), SkewGiven)]_vars

---------------------------------------------------------------------------
(* The divisor: amounts with every suffix of the table and with suffixes   *)
(* it does not have                                                        *)

\* amounts as they are written, and the numbers they stand for
DivAmounts ==
    {<<"1", D(1, 0)>>, <<"2", D(2, 0)>>, <<"10", D(1, 1)>>, <<"0.5", D(5, -1)>>,
     <<"1.5", D(15, -1)>>, <<"024", D(24, 0)>>}
ListedSuffixes == {"", "k", "K", "M", "Mi", "G", "Gi", "T", "Ti", "P", "Pi"}
TableSuffixes == ListedSuffixes \cup {"ki"}
OtherSuffixes == {"x", "kB", "Ki", "m", "MI", "E"}
DivOptions ==
    {[div |-> a[1] \o sfx] : a \in DivAmounts, sfx \in TableSuffixes \cup OtherSuffixes}
DivInputs == {"1048576", "3000 B", "-2.5 GiB"}

NextDiv == Invoke(DivInputs, DivOptions) \/ Step

SpecDiv == Init /\ [][NextDiv]_vars

\* 1024 to the power n, in the arithmetic of the script
RECURSIVE Pow1024(_)
Pow1024(n) == IF n = 0 THEN D(1, 0) ELSE Mul(D(1024, 0), Pow1024(n - 1))

\* the factor a suffix stands for
Factor(sfx) ==
    CASE sfx = "k" -> D(1, 3)    [] sfx \in {"K", "ki"} -> Pow1024(1)
      [] sfx = "M" -> D(1, 6)    [] sfx = "Mi" -> Pow1024(2)
      [] sfx = "G" -> D(1, 9)    [] sfx = "Gi" -> Pow1024(3)
      [] sfx = "T" -> D(1, 12)   [] sfx = "Ti" -> Pow1024(4)
      [] sfx = "P" -> D(1, 15)   [] sfx = "Pi" -> Pow1024(5)
      [] OTHER -> D(1, 0)

\* C15, as amended: the divisor <number><suffix> of a number that is not 0 is
\* number * factor, the factor being the one of the table k, K, ki, M, Mi,
\* G, Gi, T, Ti, P, Pi for the suffix and 1 for no suffix and for a suffix
\* the table does not have; "1Mi" is 1048576, by which the value (in bytes,
\* if it came in an IEC unit) is divided
DivResolved ==
    /\ \A a \in DivAmounts, sfx \in TableSuffixes \cup OtherSuffixes :
          pc # "idle" /\ opts = [div |-> a[1] \o sfx]
          => asked.divAsked = Mul(a[2], Factor(sfx))
    /\ pc # "idle" /\ opts = [div |-> "1Mi"] => asked.divAsked = Mk(1048576, 0)
    /\ pc = "final" /\ opts = [div |-> "1Mi"] /\ f.unit_i # "°"
          => f.value = Div(Mul(f.origValue, IecFactor(f.origUnit)), Mk(1048576, 0))

\* 1048576 divided by 1Mi is 1
DividedByMi ==
    /\ pc = "done" /\ i = "1048576" /\ opts = [div |-> "1Mi"]
    /\ asked.divAsked = D(1048576, 0) /\ ret = Str("1")

\* the factor of a suffix when the table is k, K, M, Mi, G, Gi, T, Ti, P, Pi
ListedFactor(sfx) == IF sfx \in ListedSuffixes THEN Factor(sfx) ELSE D(1, 0)

\* C15: the divisor <number><suffix> is number * factor with the factors
\* k=1e3, K=1024, M=1e6, Mi=1024^2, G=1e9, Gi=1024^3, T=1e12, Ti=1024^4,
\* P=1e15, Pi=1024^5 and 1 for no suffix; every other suffix gives the bare
\* number
DivResolvedAsListed ==
    \A a \in DivAmounts, sfx \in TableSuffixes \cup OtherSuffixes :
        pc # "idle" /\ opts = [div |-> a[1] \o sfx]
        => asked.divAsked = Mul(a[2], ListedFactor(sfx))

---------------------------------------------------------------------------
(* Divisors that are none: 0, and texts that are no <number><suffix>       *)

BadDivs == {"0", " 0 ", "0.0", "0k", "abc", "1.", "-5", "", "1 k", "1e3"}
BadDivOptions == {[div |-> d] : d \in BadDivs}

NextBadDiv == Invoke(WithUnit(AdjustNumbers, AdjustUnits), BadDivOptions) \/ Step

SpecBadDiv == Init /\ [][NextBadDiv]_vars

\* what the call in progress returns when it is made without options
WithoutDiv == significantTransform(i, <<>>, debugFinal, 0, FALSE)

\* C16: a divisor that is 0 or is no <number><suffix> is treated as absent:
\* nothing is divided by it, and the call returns the number and the unit
\* that the call without the option div returns
BadDivIgnored ==
    pc = "done" /\ opts \in BadDivOptions
    => asked.divAsked = Undefined /\ ret = WithoutDiv

---------------------------------------------------------------------------
(* Multipliers written with and without a suffix                           *)

\* multipliers as they are written, and the amounts they stand for when
\* the suffixes are those of the divisor
MultAmounts == {<<"1000", D(1, 3)>>, <<"1K", D(1024, 0)>>, <<"1M", D(1, 6)>>, <<"3", D(3, 0)>>}
MultOptions == {[mult |-> m[1]] : m \in MultAmounts}

NextMult == Invoke(WithUnit(AdjustNumbers, AdjustUnits), MultOptions) \/ Step

SpecMult == Init /\ [][NextMult]_vars

\* C17: a multiplier may be written with a suffix, as a divisor may: with
\* mult=1K and mult=1M the value is multiplied by the expanded amount before
\* it is rounded, with mult=1000 by 1000
MultExpanded ==
    [][\A m \in MultAmounts :
          RoundsValue /\ opts = [mult |-> m[1]] => f'.value = Mul(f.value, m[2])]_vars

---------------------------------------------------------------------------
(* Angles, at the default precision and at precisions asked for            *)

AngleInputs ==
    {"0 °", "10 °", "44.9 °", "45 °", "180 °", "359.99 °", "360 °", "370 °", "-10 °",
     "725.5 °"}
AnglePrecisions ==
    {<<>>, [precision |-> "1"], [precision |-> "2"], [precision |-> "3"],
     [precision |-> "4"], [precision |-> "1.5"], [precision |-> "2.5"],
     [precision |-> "0.5"]}

NextAngle == Invoke(AngleInputs, AnglePrecisions) \/ Step

SpecAngle == Init /\ [][NextAngle]_vars

\* x is a number from 0 up to, but not including, 360
InCircle(x) == IsFin(x) /\ Ge(x, Zero) /\ Lt(x, D(36, 1))

\* C18: an angle is first brought into [0, 360), 370 becoming 10, and the
\* number returned lies in [0, 360), whatever the value and the precision
AngleInCircle ==
    pc = "final" /\ f.unit_i = "°"
    => /\ InCircle(f.value)
       /\ (i = "370 °" => f.value = D(1, 1))
       /\ InCircle(f.newValue)

---------------------------------------------------------------------------
(* Diagnostics                                                             *)

DiagnosticInputs == WithUnit({"12.345", "0.5", "-1234.5", "0"}, {"", "°C", "°F", "V", "xyz"})
DiagnosticOptions ==
    {[testing |-> "true"], [verbose |-> "true"], [verbose |-> "yes", testing |-> "1"],
     [verbose |-> "false"], [testing |-> "on", precision |-> "3"],
     [verbose |-> "true", si |-> "false"]}

NextDiagnostics == Invoke(DiagnosticInputs, DiagnosticOptions) \/ Step

SpecDiagnostics == Init /\ [][NextDiagnostics]_vars

\* the options o without verbose and testing
Undiagnosed(o) == [k \in DOMAIN o \ {"verbose", "testing"} |-> o[k]]

\* C19: verbose and testing are diagnostics only: a call returns the string
\* that the call with the same input and the same other options, but
\* without verbose and testing, returns
DiagnosticsOnly ==
    pc = "done" /\ (Has(opts, "verbose") \/ Has(opts, "testing")) /\ ~asked.flickerEnabled
    => ret = significantTransform(i, Undiagnosed(opts), debugFinal, 0, FALSE)

---------------------------------------------------------------------------
(* The flags of the script from call to call                               *)

\* C20: no setting leaks from call to call: when a call starts processing,
\* every flag of the script holds its declared default, or what the options
\* of this call ask for; debugFinal, which no option sets, is true
NoLeakBetweenCalls ==
    pc = "datetime"
    => /\ verboseAsked = asked.verboseAsked
       /\ testingAsked = asked.testingAsked
       /\ flickerEnabled = asked.flickerEnabled
       /\ debugEnabled = FALSE
       /\ verboseIncreased = FALSE
       /\ debugFinal = TRUE

---------------------------------------------------------------------------
(* C21: the precision the unit policy seeks                                *)

\* the call in progress has come through the switch at line 360 on a unit
\* that has a case there, with a finite value and no precision asked for:
\* precisionSeeked is the one the case of the unit has set
PolicyDerived ==
    /\ pc = "round"
    /\ f.origUnit \in KnownUnits
    /\ IsFin(f.value)
    /\ asked.precisionAsked = Undefined

\* C21: the precision that the case of a unit sets is never negative:
\* for every unit with a case and every finite value, precisionSeeked >= 0
SeekedNotNegative == PolicyDerived => Ge(f.precisionSeeked, Zero)

---------------------------------------------------------------------------
(* C22: the flicker and the rounding step                                  *)

\* values of several magnitudes, with the flicker on and several precisions
FlickerInputs == {"5.25 V", "0.5", "0.012", "12 °C", "1234 %", "0.0012 %"}
FlickerOptions ==
    {[flicker |-> "true"], [flicker |-> "true", precision |-> "3"],
     [flicker |-> "true", precision |-> "1.5"], [precision |-> "3"]}

NextFlicker == Invoke(FlickerInputs, FlickerOptions) \/ Step

SpecFlicker == Init /\ [][NextFlicker]_vars

\* the step at lines 754-760 of a call with the flicker on: the value
\* has been rounded at lines 688-727 and was not normalised to a prefix
AddsFlicker ==
    /\ pc = "round" /\ pc' = "final"
    /\ flickerEnabled
    /\ f'.power # Undefined
    /\ ~IsStr(f'.newValue)

\* the value that the step leaves when the draw is 0 and nothing is added
Unflickered == Rounding(f, asked, 0).newValue

\* C22: the flicker is below the precision: whenever the flicker is on
\* and an amount is added, whatever the draw, the magnitude and the
\* precision, the amount is strictly smaller than the rounding step
\* 10^(magnitude - floor(p) + 1) of the result
FlickerBelowStep ==
    [][AddsFlicker => Lt(Sub(f'.newValue, Unflickered), f'.power)]_vars

---------------------------------------------------------------------------
(* C23: the fractional rounder on its own: the value sign * m * 10^e, the  *)
(* precision n + tenths / 10 and the digits found drawn from bounded sets  *)

MaxDigits == 60
MaxTiny == 14
MaxFigures == 2

\* the digits of m without the zeros at its end
Figures(m) == NDigits(Strip(m, 0).m)

InitTables ==
    /\ Loaded
    /\ arg \in {[sign |-> sg, m |-> m, e |-> e, n |-> n, tenths |-> t] :
                   sg \in {-1, 1}, m \in 1..MaxDigits, e \in {-MaxTiny, -1, 0, 2},
                   n \in 0..MaxFigures, t \in 0..9}
    /\ out = None

\* lines 149-162 and 303-347: the locals of a call on the value of a, with
\* the precision of a sought
LocalsOf(a) ==
    [Locals("", TRUE) EXCEPT !.value = Signed(a.sign, Mk(a.m, a.e)),
                             !.precisionSeeked = Add(N(a.n), D(a.tenths, -1)),
                             !.precisionFound = N(Figures(a.m))]

\* lines 688-727: the precision is split and the value rounded
ApplyFractional ==
    /\ pc = "idle" /\ arg # None /\ out = None
    /\ out' = RoundValue(SplitPrecision(LocalsOf(arg)))
    /\ UNCHANGED <<globals, logged, pc, call, ret, arg>>

SpecTables == InitTables /\ [][ApplyFractional]_vars

\* stepCount = clamp(ceil(1 / min(f, 1 - f)), [2, 5]) for f = tenths / 10
StepCount(tenths) ==
    MinI(5, MaxI(2, (10 + MinI(tenths, 10 - tenths) - 1) \div MinI(tenths, 10 - tenths)))

\* the index of the first border that the remainder r / 10^(q - 1) does
\* not exceed, counted from 0; the number of borders when it exceeds all
FirstBorder(borders, r, q) ==
    Cardinality({k \in 1..Len(borders) :
                    \A j \in 1..k : 10 * r > AtExp(borders[j], -1) * Pow10i(q - 1)})

\* sign * (T + MIDDLES[s][i] * 10^(magnitude - n)) in integers: q digits of
\* m are cut off, t is what is left of m, r what is cut off
TableResult(a, s, q, t, r) ==
    LET borders == IF t = 0 THEN BORDERS0[s] ELSE BORDERS1[s]
        middles == IF t = 0 THEN MIDDLES0[s] ELSE MIDDLES1[s]
        k == FirstBorder(borders, r, q)
    IN  IF k + 1 \in 1..Len(middles)
        THEN Signed(a.sign, Mk(t * 10 + ToInt(middles[k + 1]), a.e + q - 1))
        ELSE None
TableForm(a) ==
    LET q == NDigits(a.m) - a.n
    IN  TableResult(a, StepCount(a.tenths), q, a.m \div Pow10i(q), a.m % Pow10i(q))

\* the middles of a table do not decrease
NonDecreasing(middles) ==
    \A k \in 1..(Len(middles) - 1) : Le(middles[k], middles[k + 1])

\* C23: with p = n + f, f > 0 and more digits found than n, the fractional
\* rounder returns sign * (T + MIDDLES[s][i] * 10^(magnitude - n)): T is
\* |value| cut to n significant figures, s = clamp(ceil(1 / min(f, 1 - f)),
\* [2, 5]), the tables are BORDERS0/MIDDLES0 when T is zero and
\* BORDERS1/MIDDLES1 otherwise, i is the index of the first border that
\* the normalized remainder does not exceed; i indexes an entry of the
\* middles, and the result does not decrease with the remainder
FractionalByTable ==
    /\ out # None /\ arg.tenths > 0 /\ Figures(arg.m) > arg.n
       => out.newValue = TableForm(arg)
    /\ \A s \in 2..5 : NonDecreasing(MIDDLES0[s]) /\ NonDecreasing(MIDDLES1[s])

---------------------------------------------------------------------------
(* C24: the plain rounding in the fractional rounder                       *)

\* C24: when the fractional part f of the precision is 0, or the digits
\* found are not more than floor(p), no table is consulted: the result is
\* the plain rounding of the value to floor(p) significant figures,
\* round(value * 10^k) / 10^k with k = floor(p) - magnitude - 1
PlainWithoutTable ==
    out # None /\ (arg.tenths = 0 \/ Figures(arg.m) <= arg.n)
        => out.newValue = ClosedForm(Signed(arg.sign, Mk(arg.m, arg.e)), arg.n)

\* 15 with two digits found is rounded at the precision 1.0 to 20, which
\* is no entry of a table
PlainRounded ==
    /\ out # None
    /\ arg = [sign |-> 1, m |-> 15, e |-> 0, n |-> 1, tenths |-> 0]
    /\ out.newValue = D(2, 1)

---------------------------------------------------------------------------
(* C25: the normalisation to a prefix of the unit                          *)

\* values of several magnitudes in units with a family of prefixes (W, V,
\* Wh, m, s), with the empty family (no unit, min) and with none (%)
NormalizeNumbers == {"5", "1234", "123456", "0.00012", "1.20e3", "0.012"}
NormalizeUnits == {"", "W", "V", "Wh", "m", "s", "min", "%"}
NormalizeInputs ==
    WithUnit(NormalizeNumbers, NormalizeUnits) \cup {"1" \o Zeros(101) \o " W"}
NormalizeOptions == {<<>>, [mult |-> "300"], [precision |-> "3"], [precision |-> "102"]}

NextNormalize == Invoke(NormalizeInputs, NormalizeOptions) \/ Step

SpecNormalize == Init /\ [][NextNormalize]_vars

\* lines 659-727 on the call in progress: the value rounded, before it
\* is normalised
RoundedValue == RoundValue(SplitPrecision(DivMult(Skew(f, asked), asked))).newValue

\* scale3 of line 728
Scale3 == trunc(Div(magniTude(RoundedValue), D(3, 0)))

\* the step through lines 728-751: the unit is no angle, the value not 0,
\* scale3 is not 0 and normalizeVector is not undefined
Normalizes ==
    /\ pc = "round" /\ pc' # "round"
    /\ f.unit_i # "°" /\ Skew(f, asked).value # Zero
    /\ f.normalizeVector.defined
    /\ IsFin(Scale3) /\ Scale3 # Zero

\* the places of the family, counted from 0, at scale3 from the entry ""
MembersAt(v, scale3) ==
    {k \in 0..(Len(v) - 1) : \E b \in 0..(Len(v) - 1) : v[b + 1] = "" /\ k = b + scale3}

\* the value displayed after the step
Displayed == parseFloat(f'.newValue.str)

\* C25: when scale3 = trunc(magnitude(rounded) / 3) is not 0 and a family
\* is defined: if the family has a member at the index of its unprefixed
\* entry plus scale3, the value is divided by 10^(3 * scale3) and the unit
\* becomes that prefix followed by the unit, so that the value displayed
\* times 10^(3 * scale3) is the rounded value; if it has none, the value
\* is not rescaled and the unit is left without prefix
NormalizedByFamily ==
    [][Normalizes =>
        /\ pc' = "final" /\ IsStr(f'.newValue)
        /\ LET members == MembersAt(f.normalizeVector.v, ToInt(Scale3))
           IN  IF members # {}
               THEN /\ \E k \in members :
                          f'.finalUnit = f.normalizeVector.v[k + 1] \o f'.unit_i
                    /\ Mul(Displayed, Pow10(Mul(D(3, 0), Scale3))) = RoundedValue
               ELSE /\ f'.finalUnit = f'.unit_i
                    /\ Le(abs(Sub(Displayed, RoundedValue)), Div(abs(RoundedValue), D(2, 0)))]_vars

---------------------------------------------------------------------------
(* C26: the precision of a converted value                                 *)

\* the units that the switch converts, with values across the bands of
\* their precisions, with and without the conversion to SI
ConvertedUnits ==
    {"°F", "kn", "mph", "m/s", "in/h", "yd", "ft", "in", "cm", "lbs", "psi", "inHg",
     "mmHg", "gal", "gal/min", "mi"}
ConvertNumbers == {"0.5", "-2.5", "5", "12.345", "21", "100", "250"}
ConvertInputs == WithUnit(ConvertNumbers, ConvertedUnits)
ConvertOptions == {<<>>, [si |-> "false"], [si |-> "true", verbose |-> "true"]}

NextConvert == Invoke(ConvertInputs, ConvertOptions) \/ Step

SpecConvert == Init /\ [][NextConvert]_vars

\* the unit of the call in progress has been converted by the switch
UnitConverted ==
    /\ pc = "round"
    /\ f.origUnit \in ConvertedUnits
    /\ f.unit_i # f.origUnit

\* the precision that the switch sets for the value v in the unit u
SeekedFor(v, u) ==
    Switch([Locals("", TRUE) EXCEPT !.value = v, !.unit_i = u], asked).precisionSeeked

\* C26: for a unit that the switch converts, the precision sought is
\* computed from the converted value, the value in the unit of the
\* output: it is the precision that the switch sets for that value in
\* that unit
SeekedFromConverted ==
    UnitConverted => f.precisionSeeked = SeekedFor(f.value, f.unit_i)

---------------------------------------------------------------------------
(* C27: a second call on the output of a call                              *)

\* C27: under the default options the transformation is idempotent: for
\* a number with a unit that the switch knows, a call on the string that
\* a call returned, with the same options, returns that same string, also
\* where the precision depends on the value and where the unit has
\* received a prefix
TransformIdempotent ==
    RoundedReturn /\ opts = <<>> /\ f.origUnit \in KnownUnits
        => significantTransform(ret.str, opts, debugFinal, 0, FALSE) = ret

---------------------------------------------------------------------------
(* C28: the order of the values returned                                   *)

\* values with three significant digits at the edges of the bands of Hz
\* (50 +- 0.3), K (273 +- 2), % (87) and V (230 +- 20), with four
\* significant digits at those of hPa (1000, 1050)
OrderInputs ==
    WithUnit({"49.5", "49.6", "49.7", "49.8", "50.3", "50.4"}, {"Hz"})
    \cup WithUnit({"799", "800", "801", "1049", "1050", "1051"}, {"hPa"})
    \cup WithUnit({"270", "271", "272", "276"}, {"K"})
    \cup WithUnit({"86.4", "86.9", "87.0", "87.1"}, {"%"})
    \cup WithUnit({"209", "210", "211"}, {"V"})
OrderOptions == {<<>>, [si |-> "false"]}

NextOrder == Invoke(OrderInputs, OrderOptions) \/ Step

SpecOrder == Init /\ [][NextOrder]_vars

\* the number and the unit in a string
NumberIn(s) == parseFloat(s)
UnitIn(s) == UnitMatch(trim(s))

\* x is an input of as many significant digits as the input of the call
\* in progress, in the same unit, and its value is not above
NotAbove(x) ==
    /\ UnitIn(x) = UnitIn(i)
    /\ PrecisionFound(trim(x)) = PrecisionFound(trim(i))
    /\ Le(NumberIn(x), NumberIn(i))

\* C28: the transformation keeps the order of the values: for a fixed
\* unit and fixed options and two inputs of as many significant digits,
\* x <= y implies output(x) <= output(y), also at the edges of the bands
\* where the precision depends on the value
OrderPreserved ==
    RoundedReturn =>
        \A x \in OrderInputs :
            NotAbove(x) =>
                Le(NumberIn(significantTransform(x, opts, debugFinal, 0, FALSE).str),
                   NumberIn(ret.str))

---------------------------------------------------------------------------
(* C29: the rounding of x and of -x                                        *)

\* the input with the opposite sign
Opposite(s) == IF Ch(s, 1) = "-" THEN From(s, 2) ELSE "-" \o s

\* what the call in progress returns for the input with the opposite sign
Mirrored == significantTransform(Opposite(i), opts, debugFinal, 0, FALSE)

\* the results r of x and s of -x are opposite numbers
Opposites(r, s) ==
    IF IsStr(r) THEN IsStr(s) /\ NumberIn(s.str) = Neg(NumberIn(r.str)) ELSE s = r

\* y lies halfway between two integers
Halfway(y) == Sub(y, floor(y)) = D(5, -1)

\* the value of the call in progress is a tie of the plain rounding at
\* lines 725-727: the precision is integral and the value scaled to it,
\* |value| * 10^(n - magnitude - 1), lies halfway between two integers
Tie ==
    /\ IsInteger(f.targetPrecisionSeeked)
    /\ Halfway(Mul(abs(f.value),
                   Pow10(Sub(Sub(f.targetPrecisionSeeked, magniTude(f.value)), D(1, 0)))))

\* the call in progress has rounded a value that is not 0 without a unit
UnitlessDone == pc = "done" /\ f # None /\ f.returned = <<>> /\ f.origUnit = ""

\* C29 as amended: for a value without a unit and every precision asked
\* for, the number returned for -x is the opposite of the number returned
\* for x, in the table branch and in the plain branch, unless x is a tie
\* of the plain branch
SignSymmetricOffTies == UnitlessDone /\ ~Tie => Opposites(ret, Mirrored)

\* -26 has been rounded at the precision 1.0 to -30, the opposite of the
\* 30 to which 26 is rounded
NegativeRounded ==
    /\ UnitlessDone /\ i = "-26" /\ asked.precisionAsked = D(1, 0)
    /\ ret = Str("-30") /\ Mirrored = Str("30")

\* C29: rounding is symmetric in the sign: for every x that is not 0 and
\* every precision asked for on an input without a unit, the number
\* returned for -x is the opposite of the number returned for x, in the
\* table branch and in the plain branch, ties such as 25 at one
\* significant figure included
SignSymmetric == UnitlessDone => Opposites(ret, Mirrored)

---------------------------------------------------------------------------
(* C30: the range of a value displayed with a prefix                       *)

\* the step through lines 728-751 has given the unit a prefix
Prefixes ==
    /\ pc = "round" /\ pc' = "final"
    /\ IsStr(f'.newValue)
    /\ f'.finalUnit # f'.unit_i

\* the value rounded on the step is below 1 in magnitude and the family
\* of the unit has a prefix below its unprefixed entry
SmallWithPrefix ==
    /\ pc = "round" /\ pc' # "round"
    /\ f.unit_i # "°" /\ Skew(f, asked).value # Zero
    /\ f.normalizeVector.defined
    /\ \E b \in 2..Len(f.normalizeVector.v) : f.normalizeVector.v[b] = ""
    /\ Lt(magniTude(RoundedValue), Zero)

\* C30: whenever the normalisation gives the unit a prefix, the value v
\* displayed satisfies 1 <= |v| < 1000, for large values and for small
\* ones alike; and a value whose magnitude is below 0 is always moved to
\* a smaller prefix when the family has one
PrefixedInRange ==
    [][/\ Prefixes => Le(D(1, 0), abs(Displayed)) /\ Lt(abs(Displayed), D(1, 3))
       /\ SmallWithPrefix => Prefixes]_vars

=============================================================================
